---- MODULE Spec2Model ----
(***************************************************************************)
(* The transaction-ingestion pipeline of the ASCII-art NFT backend:        *)
(*   - the Record Store   (services/nft_storage.rs, NftStorageService)     *)
(*   - the coordinator    (services/solana_indexer.rs, SolanaIndexerService)*)
(* The relational tables are sets of rows, the ledger RPC and the database *)
(* connection are inputs whose outcome (answer, failure) is chosen by the  *)
(* environment at every call.                                              *)
(***************************************************************************)
EXTENDS Integers, Sequences, FiniteSets, TLC

(***************************************************************************)
(* Bounds of the model.                                                    *)
(***************************************************************************)
\* the clock runs over 0..MaxTime (unit: one day)
MaxTime == 2
\* number of uuids Uuid::new_v4 hands out in one run (bounds the inserts)
MaxUuid == 2
\* BATCH_SIZE of the sweep (50 in the source), scaled
BatchSize == 1
\* max_cache_size of the coordinator (100_000 in the source), scaled
MaxCacheSize == 2
\* max_retries of the coordinator (5 in the source), scaled
MaxRetries == 2
\* number of start_indexing calls that start the indexer in one run
MaxStarts == 2
\* number of coordinator steps (a signature list, a check of the store, the
\* treatment of one signature with its retries) that meet failures of the
\* RPC, the database or the ownership check in one run
MaxFaults == 1
\* the coordinator's monotonic clock (Instant::now) runs over 0..MaxInstant
MaxInstant == 3
\* calculate_level is compared on the counts 0..MaxCount
MaxCount == 3

\* VERIFICATION_AGE_DAYS
VERIFICATION_AGE_DAYS == 1

\* the wallets that own items
Owners == {"W1", "W2"}

\* the callers of the public cleanup_burned_nfts: the hourly task of
\* start_cleanup_task and one more holder of the Arc<NftStorageService>
Sweepers == {"timer", "other"}

(***************************************************************************)
(* Inputs: what the ledger RPC and the database answer at one call.        *)
(***************************************************************************)
\* get_token_account_balance for the owner's associated token account:
\*   "held"        Ok, amount > 0
\*   "zero"        Ok, amount = 0
\*   "rpc_error"   the call failed (network error, unknown account)
\*   "invalid_key" the mint or the owner is no valid Pubkey (no call is made)
RpcOutcomes == {"held", "zero", "rpc_error", "invalid_key"}

\* where the database fails during save_nft
SaveDb == {"ok", "down", "insert_fails", "recalc_fails"}
\* where the database fails during save_buyback_event
BuybackDb == {"ok", "down", "insert_fails"}
\* where the database fails during one batch of the sweep
BatchDb == {"ok", "down", "delete_fails"}

VARIABLES
  now,              \* Utc::now(), in days
  next_uuid,        \* the next value of Uuid::new_v4
  rpc_client,       \* NftStorageService.rpc_client.is_some()
  nfts,             \* table nfts
  user_levels,      \* table user_levels: wallet_address -> row or NoLevel
  buyback_events,   \* table buyback_events
  cleanup_running,  \* NftStorageService.cleanup_running
  sweep_pc,         \* position of each cleanup_burned_nfts caller
  sweep_offset,     \* local `offset` of cleanup_burned_nfts
  sweep_threshold,  \* local `verification_threshold`
  sweep_checked,    \* the rows the call has checked, and local `total_checked`
  swept,            \* history: mint and minter of the rows a sweep deleted
  last,             \* the last step made: its inputs and what it returned
  is_indexing,           \* SolanaIndexerService.is_indexing
  processed_signatures,  \* the cache: signature -> Instant of processing
  processing_signatures, \* signatures marked as being processed
  metrics,               \* IndexerMetrics: total_processed, _errors, _retries
  instant,               \* Instant::now()
  starter,               \* position of the start_indexing call, its loop index
  starts,                \* number of start_indexing calls that went on to start
  poll,                  \* the spawned poll loops: position and locals
  cache_cleanup_tasks,   \* number of spawned cache cleanup tasks
  faults,                \* failures injected into the coordinator so far
  calls,                 \* position and locals of each concurrent store call
  tx,                    \* the transaction handed to the event parser
  held                   \* the lock guards each task of the indexer holds

store_vars == <<nfts, user_levels, buyback_events>>
sweep_vars == <<cleanup_running, sweep_pc, sweep_offset, sweep_threshold,
                sweep_checked, swept>>
indexer_vars == <<is_indexing, processed_signatures, processing_signatures,
                  metrics, instant, starter, starts, poll, cache_cleanup_tasks,
                  faults, held>>
vars == <<now, next_uuid, rpc_client, nfts, user_levels, buyback_events,
          cleanup_running, sweep_pc, sweep_offset, sweep_threshold,
          sweep_checked, swept, last,
          is_indexing, processed_signatures, processing_signatures, metrics,
          instant, starter, starts, poll, cache_cleanup_tasks, faults, calls,
          tx, held>>

\* the ingestion attempts that call the store concurrently
Callers == {"a", "b"}
\* a caller outside a store call
CallIdle == [pc |-> "idle"]

\* the poll loops start_indexing can spawn
Loops == 1..MaxStarts
\* a poll loop outside the treatment of a signature
PollIdle(pc) == [pc |-> pc, idx |-> 0, attempt |-> 0, success |-> FALSE]

\* no task of the indexer holds a lock guard: `starter` is the task of main
\* that calls start_indexing, `poll` the spawned loops
NoGuards == [starter |-> {}, poll |-> [l \in Loops |-> {}]]

NoRow == [id |-> 0]
NoLevel == [version |-> 0]

RowsOfMint(t, mint) == {r \in t : r.mint = mint}
RowsOfMinter(t, minter) == {r \in t : r.minter = minter}
RowsOfSig(t, sig) == {r \in t : r.transaction_signature = sig}

\* the CreateNft candidates the callers of the store pass in (the field
\* transaction_signature stands also for the fields that come with the
\* transaction: name, symbol, uri, slot, block_time, timestamp): two for the
\* mint M1 that differ in every other field, and a second mint of the owner W1
NftCandidates ==
  {[mint |-> "M1", minter |-> "W1", transaction_signature |-> "S1"],
   [mint |-> "M1", minter |-> "W2", transaction_signature |-> "S2"],
   [mint |-> "M2", minter |-> "W1", transaction_signature |-> "S2"]}
\* the CreateBuybackEvent candidates (amount_sol stands for the amounts, the
\* slot and the times): two for the signature S1 that differ in the amount,
\* and one for S2
BuybackCandidates ==
  {[transaction_signature |-> "S1", amount_sol |-> 1],
   [transaction_signature |-> "S1", amount_sol |-> 2],
   [transaction_signature |-> "S2", amount_sol |-> 1]}

(***************************************************************************)
(* models/level_calculator.rs                                              *)
(***************************************************************************)
\* a variant whose level falls as the count grows
calculate_level_falling(mint_count) ==
  [total_mints |-> mint_count, level |-> 1 - mint_count,
   experience |-> mint_count, next_level_mints |-> 0]

calculate_level(mint_count) ==
  [total_mints |-> mint_count, level |-> 1, experience |-> mint_count,
   next_level_mints |-> 0]

(***************************************************************************)
(* NftStorageService::is_nft_owned_by_wallet: the AppResult<bool> it makes *)
(* of the RPC's answer.                                                    *)
(***************************************************************************)
\* a check that reports a failed balance query as an error
is_nft_owned_by_wallet_reporting(rpc) ==
  CASE rpc = "invalid_key" -> "Err"
    [] rpc = "held" -> "Ok(true)"
    [] rpc = "zero" -> "Ok(false)"
    [] rpc = "rpc_error" -> "Err"

is_nft_owned_by_wallet(rpc) ==
  CASE rpc = "invalid_key" -> "Err"
    [] rpc = "held" -> "Ok(true)"
    [] rpc = "zero" -> "Ok(false)"
    [] rpc = "rpc_error" -> "Ok(false)"

(***************************************************************************)
(* NftStorageService::recalculate_user_level: the user_levels table after  *)
(* the recomputation for wallet_address over the nfts table t.             *)
(***************************************************************************)
\* a recomputation that upserts the row whatever the count
recalculate_user_level_keeps_row(t, levels, wallet_address) ==
  LET total_mints == Cardinality(RowsOfMinter(t, wallet_address))
      level_data == calculate_level(total_mints)
      old == levels[wallet_address]
  IN [levels EXCEPT ![wallet_address] =
        [total_mints |-> total_mints,
         level |-> level_data.level,
         experience |-> level_data.experience,
         next_level_mints |-> level_data.next_level_mints,
         version |-> IF old = NoLevel THEN 1 ELSE old.version + 1]]

\* a level row that is incremented at every recomputation instead of set
write_user_level_increment(levels, wallet_address, total_mints) ==
  LET old == levels[wallet_address]
      n == IF old = NoLevel THEN 1 ELSE old.total_mints + 1
  IN [levels EXCEPT ![wallet_address] =
        [total_mints |-> n, level |-> 1, experience |-> n,
         next_level_mints |-> 0,
         version |-> IF old = NoLevel THEN 1 ELSE old.version + 1]]

\* the statement recalculate_user_level issues for the count it has read:
\* DELETE FROM user_levels at 0, the upsert (version + 1 on conflict) otherwise
write_user_level(levels, wallet_address, total_mints) ==
  LET level_data == calculate_level(total_mints)
      old == levels[wallet_address]
  IN IF total_mints = 0
       THEN [levels EXCEPT ![wallet_address] = NoLevel]
       ELSE [levels EXCEPT ![wallet_address] =
               [total_mints |-> total_mints,
                level |-> level_data.level,
                experience |-> level_data.experience,
                next_level_mints |-> level_data.next_level_mints,
                version |-> IF old = NoLevel THEN 1 ELSE old.version + 1]]

recalculate_user_level(t, levels, wallet_address) ==
  write_user_level(levels, wallet_address,
                   Cardinality(RowsOfMinter(t, wallet_address)))

\* the recomputation for a set of wallets, one after the other (they touch
\* different rows, the order is immaterial)
RECURSIVE recalculate_all(_, _, _)
recalculate_all(t, levels, wallets) ==
  IF wallets = {} THEN levels
  ELSE LET w == CHOOSE x \in wallets : TRUE
       IN recalculate_all(t, recalculate_user_level(t, levels, w), wallets \ {w})

(***************************************************************************)
(* Results of the store's operations: AppResult<Nft>, AppResult<..>.       *)
(***************************************************************************)
Success(row) == [status |-> "Ok", row |-> row]
Failure(kind) == [status |-> kind, row |-> NoRow]

\* an INSERT INTO nfts under a schema without the constraint
insert_nft_unconstrained(t, row) == [ok |-> TRUE, table |-> t \cup {row}]

\* INSERT INTO nfts under the schema's constraint `mint ... UNIQUE`:
\* the table after the statement, and whether the constraint let it through
insert_nft(t, row) ==
  IF RowsOfMint(t, row.mint) # {}
    THEN [ok |-> FALSE, table |-> t]
    ELSE [ok |-> TRUE, table |-> t \cup {row}]

(***************************************************************************)
(* NftStorageService::save_nft on the tables (t, levels): the tables after *)
(* the call, the verdict of the ownership check and the value returned.    *)
(*   has_rpc   rpc_client.is_some()                                        *)
(*   rpc       the RPC's answer to the balance query, if it is made        *)
(*   db        where the database fails, if it does                        *)
(* own is "not_checked" when the call ends before the ownership check, db  *)
(* is the failure the call met ("ok": none).                               *)
(***************************************************************************)
\* a save that overwrites the stored row with the candidate's fields
save_nft_existing_upsert(t, levels, uuid, time, row, nft) ==
  LET new == [row EXCEPT !.minter = nft.minter,
                         !.transaction_signature = nft.transaction_signature,
                         !.updated_at = time]
      table == (t \ {row}) \cup {new}
  IN [nfts |-> table,
      user_levels |-> recalculate_all(table, levels, {row.minter, nft.minter}),
      next_uuid |-> uuid, own |-> "not_checked", res |-> Success(new),
      db |-> "ok"]

\* the branch `if let Some(row) = existing`: the row is returned as it is
save_nft_existing(t, levels, uuid, time, row, nft) ==
  [nfts |-> t, user_levels |-> levels, next_uuid |-> uuid,
   own |-> "not_checked", res |-> Success(row), db |-> "ok"]

\* a save that rejects no candidate
ownership_rejects_never(own) == FALSE

\* the match on the ownership verdict: TRUE when the candidate is rejected
ownership_rejects(own) == own = "Ok(false)"

save_nft(t, levels, uuid, time, has_rpc, nft, rpc, db) ==
  LET existing == RowsOfMint(t, nft.mint)
      own == IF has_rpc THEN is_nft_owned_by_wallet(rpc) ELSE "not_checked"
      row == [id |-> uuid, mint |-> nft.mint, minter |-> nft.minter,
              transaction_signature |-> nft.transaction_signature,
              updated_at |-> time]
      inserted == insert_nft(t, row)
      Same(o, res, d) == [nfts |-> t, user_levels |-> levels, next_uuid |-> uuid,
                          own |-> o, res |-> res, db |-> d]
  IN IF db = "down" THEN Same("not_checked", Failure("Database"), "down")
     ELSE IF existing # {}
       THEN save_nft_existing(t, levels, uuid, time,
                              CHOOSE r \in existing : TRUE, nft)
     ELSE IF ownership_rejects(own) THEN Same(own, Failure("Validation"), "ok")
     ELSE IF db = "insert_fails" \/ ~inserted.ok
       THEN Same(own, Failure("Database"), "insert_fails")
     ELSE [db |-> db,
           nfts |-> inserted.table,
           user_levels |-> IF db = "recalc_fails" THEN levels
                           ELSE recalculate_user_level(inserted.table, levels,
                                                       nft.minter),
           next_uuid |-> uuid + 1,
           own |-> own,
           res |-> Success(row)]

(***************************************************************************)
(* NftStorageService::save_buyback_event on the table b.                   *)
(* buyback_events.transaction_signature carries no UNIQUE constraint.      *)
(***************************************************************************)
\* a save that inserts without the lookup of the signature
save_buyback_event_unchecked(b, uuid, time, event, db) ==
  LET row == [id |-> uuid,
              transaction_signature |-> event.transaction_signature,
              amount_sol |-> event.amount_sol,
              created_at |-> time]
  IN IF db # "ok"
       THEN [buyback_events |-> b, next_uuid |-> uuid, db |-> db,
             res |-> Failure("Database")]
       ELSE [buyback_events |-> b \cup {row}, next_uuid |-> uuid + 1, db |-> "ok",
             res |-> Success(row)]

save_buyback_event(b, uuid, time, event, db) ==
  LET existing == RowsOfSig(b, event.transaction_signature)
      row == [id |-> uuid,
              transaction_signature |-> event.transaction_signature,
              amount_sol |-> event.amount_sol,
              created_at |-> time]
  IN IF db = "down"
       THEN [buyback_events |-> b, next_uuid |-> uuid, db |-> "down",
             res |-> Failure("Database")]
     ELSE IF existing # {}
       THEN [buyback_events |-> b, next_uuid |-> uuid, db |-> "ok",
             res |-> Success(CHOOSE r \in existing : TRUE)]
     ELSE IF db = "insert_fails"
       THEN [buyback_events |-> b, next_uuid |-> uuid, db |-> "insert_fails",
             res |-> Failure("Database")]
     ELSE [buyback_events |-> b \cup {row}, next_uuid |-> uuid + 1, db |-> "ok",
           res |-> Success(row)]

(***************************************************************************)
(* Actions of the Record Store.                                            *)
(***************************************************************************)
RpcInputs == IF rpc_client THEN RpcOutcomes ELSE {"none"}

\* a caller invokes save_nft(nft)
SaveNft ==
  \E nft \in NftCandidates, rpc \in RpcInputs, db \in SaveDb :
    LET out == save_nft(nfts, user_levels, next_uuid, now, rpc_client, nft, rpc, db)
    IN /\ out.next_uuid <= MaxUuid + 1
       \* inputs the call never reads are not told apart
       /\ out.db = db
       /\ out.own = "not_checked" => rpc = CHOOSE x \in RpcInputs : TRUE
       /\ nfts' = out.nfts
       /\ user_levels' = out.user_levels
       /\ next_uuid' = out.next_uuid
       /\ last' = [op |-> "save_nft", arg |-> nft,
                   rpc |-> IF out.own = "not_checked" THEN "none" ELSE rpc,
                   db |-> out.db, own |-> out.own, res |-> out.res]
       /\ UNCHANGED <<tx, calls, now, rpc_client, buyback_events, sweep_vars, indexer_vars>>

\* a caller invokes save_buyback_event(event)
SaveBuybackEvent ==
  \E event \in BuybackCandidates, db \in BuybackDb :
    LET out == save_buyback_event(buyback_events, next_uuid, now, event, db)
    IN /\ out.next_uuid <= MaxUuid + 1
       /\ out.db = db
       /\ buyback_events' = out.buyback_events
       /\ next_uuid' = out.next_uuid
       /\ last' = [op |-> "save_buyback_event", arg |-> event, db |-> out.db,
                   res |-> out.res]
       /\ UNCHANGED <<tx, calls, now, rpc_client, nfts, user_levels, sweep_vars, indexer_vars>>

\* time passes
Tick ==
  /\ now < MaxTime
  /\ now' = now + 1
  /\ last' = [op |-> "tick"]
  /\ UNCHANGED <<tx, calls, next_uuid, rpc_client, nfts, user_levels,
                 buyback_events, sweep_vars, indexer_vars>>


(***************************************************************************)
(* NftStorageService::cleanup_burned_nfts, the reconciliation sweep.       *)
(***************************************************************************)
\* the answers the query of one batch can give: the rows with
\* updated_at < threshold in ascending order of updated_at (rows of equal
\* updated_at in any order), cut by LIMIT BatchSize OFFSET offset
SortedRows(t, threshold) ==
  LET sel == {r \in t : r.updated_at < threshold}
      n == Cardinality(sel)
  IN {s \in [1..n -> sel] :
        /\ \A i, j \in 1..n : i # j => s[i] # s[j]
        /\ \A i, j \in 1..n : i < j => s[i].updated_at <= s[j].updated_at}

Batches(t, threshold, offset) ==
  {{s[i] : i \in {k \in DOMAIN s : offset < k /\ k <= offset + BatchSize}} :
     s \in SortedRows(t, threshold)}

\* a sweep that does not look at the flag
cleanup_may_start_always(running) == TRUE

\* the flag check of cleanup_burned_nfts, under the write lock of
\* cleanup_running: TRUE when the call goes on to sweep
cleanup_may_start(running) == ~running

\* no row checked yet
NoneChecked == [ids |-> {}, total_checked |-> 0]
\* total_checked += batch_size, and the rows of the batch
Checked(c, rows) ==
  [ids |-> c.ids \cup {r.id : r \in rows},
   total_checked |-> c.total_checked + Cardinality(rows)]

\* the mint a row stands for, with the wallet recorded as its minter
MintOf(r) == [mint |-> r.mint, minter |-> r.minter]

\* the locals of a cleanup_burned_nfts call that has returned
SweepReturned(p) ==
  /\ sweep_pc' = [sweep_pc EXCEPT ![p] = "idle"]
  /\ sweep_offset' = [sweep_offset EXCEPT ![p] = 0]
  /\ sweep_threshold' = [sweep_threshold EXCEPT ![p] = 0]
  /\ sweep_checked' = [sweep_checked EXCEPT ![p] = NoneChecked]

\* a caller invokes cleanup_burned_nfts: the flag is checked and set, the
\* threshold is computed, a connection is taken from the pool (db = "down":
\* pool.get fails and `?` returns the error with the flag still set)
CleanupStart(p) ==
  /\ sweep_pc[p] = "idle"
  /\ \E db \in {"ok", "down"} :
       IF ~cleanup_may_start(cleanup_running)
         THEN /\ db = "ok"
              /\ last' = [op |-> "cleanup_skipped", who |-> p]
              /\ UNCHANGED <<sweep_vars>>
         ELSE /\ cleanup_running' = TRUE
              /\ UNCHANGED swept
              /\ IF db = "down"
                   THEN /\ last' = [op |-> "cleanup_failed", who |-> p]
                        /\ UNCHANGED <<sweep_pc, sweep_offset, sweep_threshold,
                                       sweep_checked>>
                   ELSE /\ sweep_pc' = [sweep_pc EXCEPT ![p] = "loop"]
                        /\ sweep_checked' =
                             [sweep_checked EXCEPT ![p] = NoneChecked]
                        /\ sweep_offset' = [sweep_offset EXCEPT ![p] = 0]
                        /\ sweep_threshold' =
                             [sweep_threshold EXCEPT ![p] = now - VERIFICATION_AGE_DAYS]
                        /\ last' = [op |-> "cleanup_started", who |-> p]
  /\ UNCHANGED <<tx, calls, now, next_uuid, rpc_client, nfts, user_levels, buyback_events,
                 indexer_vars>>

\* the sweep's treatment of one batch: the ownership checks (check[r] is the
\* RPC's answer for row r), the deletion and the recomputation of the levels
\* of the affected minters (those in failed meet a storage error)
cleanup_batch(t, levels, has_rpc, rows, check, db, failed) ==
  LET to_remove == {r \in rows :
                      has_rpc /\ is_nft_owned_by_wallet(check[r]) = "Ok(false)"}
      affected_minters == {r.minter : r \in to_remove}
      remaining == t \ to_remove
  IN IF to_remove = {}
       THEN [nfts |-> t, user_levels |-> levels, to_remove |-> {}, ok |-> TRUE]
     ELSE IF db = "delete_fails"
       THEN [nfts |-> t, user_levels |-> levels, to_remove |-> to_remove,
             ok |-> FALSE]
     ELSE [nfts |-> remaining,
           user_levels |-> recalculate_all(remaining, levels,
                                           affected_minters \ failed),
           to_remove |-> to_remove, ok |-> TRUE]

\* one turn of the sweep's loop: query a batch, treat it, advance the offset
CleanupBatch(p) ==
  /\ sweep_pc[p] = "loop"
  /\ \E db \in BatchDb :
       \/ /\ db = "down"
          \* the query fails: `?` returns the error, the flag stays set
          /\ SweepReturned(p)
          /\ last' = [op |-> "cleanup_failed", who |-> p]
          /\ UNCHANGED <<nfts, user_levels, cleanup_running>>
       \/ /\ db # "down"
          /\ \E rows \in Batches(nfts, sweep_threshold[p], sweep_offset[p]) :
               IF rows = {}
                 THEN \* no row left: break, the flag is reset
                      /\ db = "ok"
                      /\ cleanup_running' = FALSE
                      /\ SweepReturned(p)
                      /\ last' = [op |-> "cleanup_done", who |-> p]
                      /\ UNCHANGED <<nfts, user_levels>>
                 ELSE \E check \in [rows -> RpcInputs], failed \in SUBSET Owners :
                        LET out == cleanup_batch(nfts, user_levels, rpc_client,
                                                 rows, check, db, failed)
                            more == out.ok /\ Cardinality(rows) >= BatchSize
                        IN /\ db = "delete_fails" => ~out.ok
                           /\ failed \subseteq {r.minter : r \in out.to_remove}
                           /\ ~out.ok => failed = {}
                           /\ nfts' = out.nfts
                           /\ user_levels' = out.user_levels
                           /\ IF more
                                THEN /\ sweep_offset' =
                                          [sweep_offset EXCEPT ![p] = @ + BatchSize]
                                     /\ sweep_checked' =
                                          [sweep_checked EXCEPT
                                             ![p] = Checked(@, rows)]
                                     /\ UNCHANGED <<sweep_pc, sweep_threshold>>
                                ELSE SweepReturned(p)
                           \* a short batch ends the sweep, the flag is reset;
                           \* a failed statement returns with the flag set
                           /\ cleanup_running' =
                                IF out.ok /\ ~more THEN FALSE ELSE cleanup_running
                           /\ last' = [op |-> IF out.ok THEN "cleanup_batch"
                                              ELSE "cleanup_failed",
                                       who |-> p, rows |-> rows,
                                       not_owned |->
                                         {r \in rows :
                                            /\ rpc_client
                                            /\ is_nft_owned_by_wallet(check[r])
                                                 = "Ok(false)"},
                                       rpc_failed |->
                                         {r \in rows : check[r] = "rpc_error"},
                                       failed |-> failed]
  /\ swept' = swept \cup {MintOf(r) : r \in nfts \ nfts'}
  /\ UNCHANGED <<tx, calls, now, next_uuid, rpc_client, buyback_events, indexer_vars>>

(***************************************************************************)
(* The ledger as the RPC endpoint shows it: the signatures of the program, *)
(* newest first, and the events the decoder finds in each transaction.     *)
(***************************************************************************)
Signatures == <<"S3", "S2", "S1">>

NoEvent == [none |-> TRUE]

\* EventParserService::parse_mint_event on the transaction of sig
MintEventOf(sig) ==
  CASE sig = "S1" -> [minter |-> "W1", mint |-> "M1"]
    [] sig = "S2" -> [minter |-> "W1", mint |-> "M2"]
    [] OTHER -> NoEvent

\* EventParserService::parse_buyback_event on the transaction of sig
BuybackEventOf(sig) ==
  CASE sig = "S2" -> [amount_sol |-> 1]
    [] OTHER -> NoEvent

\* MintEvent::to_create_nft
to_create_nft(mint_event, signature) ==
  [mint |-> mint_event.mint, minter |-> mint_event.minter,
   transaction_signature |-> signature]

\* BuybackEventData::to_create_buyback_event
to_create_buyback_event(buyback_event, signature) ==
  [transaction_signature |-> signature, amount_sol |-> buyback_event.amount_sol]

\* backfill_limit of the coordinator (20 in the source), scaled below the
\* length of the ledger's list
backfill_limit == 2
poll_limit == 20

\* signatures.iter().take(limit)
Take(limit) == IF Len(Signatures) < limit THEN Len(Signatures) ELSE limit

(***************************************************************************)
(* SolanaIndexerService::fetch_and_process_transaction with                *)
(* process_transaction: the tables after the call and the status returned. *)
(*   fetch  get_transaction_with_config: "ok" or "rpc_error"               *)
(*   rpc    the RPC's answer to save_nft's balance query                   *)
(*   sdb    where the database fails during save_nft                       *)
(*   bdb    where the database fails during save_buyback_event             *)
(* read: which of the inputs the call came to read.                        *)
(***************************************************************************)
\* a process_transaction that takes a transaction without a decodable event
\* for a failure
process_transaction_strict(t, levels, b, uuid, time, has_rpc, sig, mint_event, buyback_event, rpc, sdb, bdb) ==
  LET m == IF mint_event # NoEvent
             THEN save_nft(t, levels, uuid, time, has_rpc,
                           to_create_nft(mint_event, sig), rpc, sdb)
             ELSE [nfts |-> t, user_levels |-> levels, next_uuid |-> uuid,
                   own |-> "not_checked", res |-> Failure("Validation"),
                   db |-> "ok"]
      e == IF buyback_event # NoEvent
             THEN save_buyback_event(b, m.next_uuid, time,
                                     to_create_buyback_event(buyback_event, sig),
                                     bdb)
             ELSE [buyback_events |-> b, next_uuid |-> m.next_uuid, db |-> "ok",
                   res |-> Success(NoRow)]
  IN IF m.res.status # "Ok"
       THEN [nfts |-> m.nfts, user_levels |-> m.user_levels, buyback_events |-> b,
             next_uuid |-> m.next_uuid, status |-> m.res.status,
             read |-> [rpc |-> m.own # "not_checked", sdb |-> m.db, bdb |-> "ok"]]
     ELSE [nfts |-> m.nfts, user_levels |-> m.user_levels,
           buyback_events |-> e.buyback_events, next_uuid |-> e.next_uuid,
           status |-> e.res.status,
           read |-> [rpc |-> m.own # "not_checked", sdb |-> m.db, bdb |-> e.db]]

process_transaction(t, levels, b, uuid, time, has_rpc, sig, mint_event, buyback_event, rpc, sdb, bdb) ==
  LET m == IF mint_event # NoEvent
             THEN save_nft(t, levels, uuid, time, has_rpc,
                           to_create_nft(mint_event, sig), rpc, sdb)
             ELSE [nfts |-> t, user_levels |-> levels, next_uuid |-> uuid,
                   own |-> "not_checked", res |-> Success(NoRow), db |-> "ok"]
      e == IF buyback_event # NoEvent
             THEN save_buyback_event(b, m.next_uuid, time,
                                     to_create_buyback_event(buyback_event, sig),
                                     bdb)
             ELSE [buyback_events |-> b, next_uuid |-> m.next_uuid, db |-> "ok",
                   res |-> Success(NoRow)]
  IN IF m.res.status # "Ok"
       THEN [nfts |-> m.nfts, user_levels |-> m.user_levels, buyback_events |-> b,
             next_uuid |-> m.next_uuid, status |-> m.res.status,
             read |-> [rpc |-> m.own # "not_checked", sdb |-> m.db, bdb |-> "ok"]]
     ELSE [nfts |-> m.nfts, user_levels |-> m.user_levels,
           buyback_events |-> e.buyback_events, next_uuid |-> e.next_uuid,
           status |-> e.res.status,
           read |-> [rpc |-> m.own # "not_checked", sdb |-> m.db, bdb |-> e.db]]

fetch_and_process_transaction(t, levels, b, uuid, time, has_rpc, sig, fetch, rpc, sdb, bdb) ==
  IF fetch # "ok"
    THEN [nfts |-> t, user_levels |-> levels, buyback_events |-> b,
          next_uuid |-> uuid, status |-> "SolanaRpc",
          read |-> [rpc |-> FALSE, sdb |-> "ok", bdb |-> "ok"]]
    ELSE process_transaction(t, levels, b, uuid, time, has_rpc, sig,
                             MintEventOf(sig), BuybackEventOf(sig), rpc, sdb, bdb)

\* the inputs of one call of fetch_and_process_transaction; a failure is
\* drawn from the budget, unless the treatment of the signature has met one
\* already (disturbed)
ProcessInputs(disturbed) ==
  {i \in [fetch : {"ok", "rpc_error"}, rpc : RpcOutcomes, sdb : SaveDb,
          bdb : BuybackDb] :
     \/ disturbed
     \/ faults < MaxFaults
     \/ i = [fetch |-> "ok", rpc |-> "held", sdb |-> "ok", bdb |-> "ok"]}

Process(sig, i) ==
  fetch_and_process_transaction(nfts, user_levels, buyback_events, next_uuid,
                                now, rpc_client, sig, i.fetch, i.rpc, i.sdb, i.bdb)

\* every input the call does not come to read has its failure-free value
InputsRead(out, i) ==
  /\ out.read.sdb = i.sdb
  /\ out.read.bdb = i.bdb
  /\ ~out.read.rpc => i.rpc = "held"

\* the call meets a failure
Faulty(i) == i # [fetch |-> "ok", rpc |-> "held", sdb |-> "ok", bdb |-> "ok"]

\* the tables and the fault count after a call with inputs i and outcome out
ProcessEffect(out, i, disturbed) ==
  /\ nfts' = out.nfts
  /\ user_levels' = out.user_levels
  /\ buyback_events' = out.buyback_events
  /\ next_uuid' = out.next_uuid
  /\ faults' = IF Faulty(i) /\ ~disturbed THEN faults + 1 ELSE faults

(***************************************************************************)
(* NftStorageService::is_transaction_processed                             *)
(***************************************************************************)
is_transaction_processed(t, b, signature) ==
  RowsOfSig(t, signature) # {} \/ RowsOfSig(b, signature) # {}

(***************************************************************************)
(* The processed-signature cache: a function signature -> Instant.         *)
(***************************************************************************)
CacheInsert(cache, signature, time) ==
  [s \in DOMAIN cache \cup {signature} |->
     IF s = signature THEN time ELSE cache[s]]

CacheKeep(cache, keep) == [s \in keep |-> cache[s]]

\* SolanaIndexerService::add_processed_signature: the caches the call can
\* leave (entries of equal Instant are sorted in the order the HashMap
\* yields them, which is any)
add_processed_signature(cache, signature, time) ==
  LET c == CacheInsert(cache, signature, time)
      target_size == (MaxCacheSize * 3) \div 4
  IN IF Cardinality(DOMAIN c) > MaxCacheSize
       THEN {CacheKeep(c, keep) :
               keep \in {k \in SUBSET DOMAIN c :
                           /\ Cardinality(k) = target_size
                           /\ \A x \in k, y \in DOMAIN c \ k : c[y] <= c[x]}}
       ELSE {c}

\* the insertion of the poll loop: processed.insert(signature, Instant::now())
poll_insert_processed(cache, signature, time) ==
  CacheInsert(cache, signature, time)

(***************************************************************************)
(* SolanaIndexerService: start_indexing with the backfill, stop_indexing,  *)
(* the poll loops start_polling spawns and the hourly cache cleanup.       *)
(***************************************************************************)
store_all == <<nfts, user_levels, buyback_events, next_uuid>>

\* the answers of get_signatures_for_address, drawn from the fault budget
ListInputs == IF faults < MaxFaults THEN {"ok", "rpc_error"} ELSE {"ok"}

\* start_polling and start_cleanup_task at the end of start_indexing: the
\* poll loop of this start begins and one more hourly cleanup task runs
StartTasks ==
  /\ poll' = [poll EXCEPT ![starts] = PollIdle("top")]
  /\ cache_cleanup_tasks' = cache_cleanup_tasks + 1
  /\ starter' = [pc |-> "idle", idx |-> 0]
  /\ held' = [held EXCEPT !.starter = {}]

\* the guard of main's `indexer_clone.write().await`, held by the task that
\* calls start_indexing until the call has returned
IndexerWriteGuard == {"indexer"}

\* start_indexing up to the signature list of the backfill
StartIndexing ==
  /\ starter.pc = "idle"
  /\ IF is_indexing
       THEN /\ last' = [op |-> "start_indexing"]
            /\ UNCHANGED <<is_indexing, starts, starter, faults, held>>
       ELSE /\ starts < MaxStarts
            /\ is_indexing' = TRUE
            /\ starts' = starts + 1
            /\ held' = [held EXCEPT !.starter = IndexerWriteGuard]
            /\ \E list \in ListInputs :
                 /\ faults' = IF list = "ok" THEN faults ELSE faults + 1
                 /\ starter' = IF list = "ok"
                                 THEN [pc |-> "backfill", idx |-> 1]
                                 ELSE [pc |-> "spawn", idx |-> 0]
                 /\ last' = [op |-> "start_indexing"]
  /\ UNCHANGED <<tx, calls, now, rpc_client, store_all, sweep_vars, processed_signatures,
                 processing_signatures, metrics, instant, poll,
                 cache_cleanup_tasks>>

\* a backfill that looks at the local cache only
backfill_decision_cache_only(cached, stored) ==
  IF cached THEN "skip" ELSE "process"

\* what the backfill does with a signature: skipped when is_signature_processed
\* finds it in the cache, recorded in the cache when is_transaction_processed
\* finds a row of it in the store, processed otherwise
backfill_decision(cached, stored) ==
  IF cached THEN "skip" ELSE IF stored THEN "record" ELSE "process"

\* one turn of the loop of backfill_recent_transactions
BackfillStep ==
  /\ starter.pc = "backfill"
  /\ starter.idx <= Take(backfill_limit)
  /\ LET sig == Signatures[starter.idx]
         advance == [starter EXCEPT !.idx = starter.idx + 1]
         decision ==
           backfill_decision(sig \in DOMAIN processed_signatures,
                             is_transaction_processed(nfts, buyback_events, sig))
     IN IF decision = "skip"
          THEN /\ starter' = advance
               /\ last' = [op |-> "backfill_step", sig |-> sig,
                           outcome |-> "cached"]
               /\ UNCHANGED <<store_all, processed_signatures, instant, faults>>
          ELSE \/ \* is_transaction_processed fails: `?` ends the backfill
                  /\ faults < MaxFaults
                  /\ faults' = faults + 1
                  /\ starter' = [pc |-> "spawn", idx |-> 0]
                  /\ last' = [op |-> "backfill_step", sig |-> sig,
                              outcome |-> "aborted"]
                  /\ UNCHANGED <<store_all, processed_signatures, instant>>
               \/ /\ decision = "record"
                  /\ instant < MaxInstant
                  /\ instant' = instant + 1
                  /\ processed_signatures' \in
                       add_processed_signature(processed_signatures, sig,
                                               instant + 1)
                  /\ starter' = advance
                  /\ last' = [op |-> "backfill_step", sig |-> sig,
                              outcome |-> "recorded"]
                  /\ UNCHANGED <<store_all, faults>>
               \/ /\ decision = "process"
                  /\ \E i \in ProcessInputs(FALSE) :
                       LET out == Process(sig, i)
                       IN /\ InputsRead(out, i)
                          /\ ProcessEffect(out, i, FALSE)
                          /\ last' = [op |-> "backfill_step", sig |-> sig,
                                      outcome |-> IF out.status = "Ok"
                                                    THEN "processed_ok"
                                                    ELSE "processed_err"]
                  /\ starter' = advance
                  /\ UNCHANGED <<processed_signatures, instant>>
  /\ UNCHANGED <<held, tx, calls, now, rpc_client, sweep_vars, is_indexing, processing_signatures,
                 metrics, starts, poll, cache_cleanup_tasks>>

\* the rest of start_indexing, after the backfill has returned
StartPolling ==
  /\ \/ starter.pc = "spawn"
     \/ starter.pc = "backfill" /\ starter.idx > Take(backfill_limit)
  /\ StartTasks
  /\ last' = [op |-> "start_polling"]
  /\ UNCHANGED <<tx, calls, now, rpc_client, store_all, sweep_vars, is_indexing,
                 processed_signatures, processing_signatures, metrics, instant,
                 starts, faults>>

\* stop_indexing (it takes &mut self, as start_indexing does)
StopIndexing ==
  /\ starter.pc = "idle"
  /\ is_indexing
  /\ is_indexing' = FALSE
  /\ last' = [op |-> "stop_indexing"]
  /\ UNCHANGED <<held, tx, calls, now, rpc_client, store_all, sweep_vars, processed_signatures,
                 processing_signatures, metrics, instant, starter, starts, poll,
                 cache_cleanup_tasks, faults>>

\* the head of the poll loop: the running flag, then the signature list
PollTop(l) ==
  /\ poll[l].pc = "top"
  /\ IF ~is_indexing
       THEN /\ poll' = [poll EXCEPT ![l] = PollIdle("stopped")]
            /\ UNCHANGED faults
       ELSE \E list \in ListInputs :
              /\ faults' = IF list = "ok" THEN faults ELSE faults + 1
              /\ poll' = [poll EXCEPT ![l] =
                            IF list = "ok"
                              THEN [PollIdle("scan") EXCEPT !.idx = 1]
                              ELSE PollIdle("sleep")]
  /\ last' = [op |-> "poll"]
  /\ UNCHANGED <<held, tx, calls, now, rpc_client, store_all, sweep_vars, is_indexing,
                 processed_signatures, processing_signatures, metrics, instant,
                 starter, starts, cache_cleanup_tasks>>

\* the next signature of the list: skipped when it is in the cache or in
\* the in-flight set (two reads, each under its own lock)
PollScan(l) ==
  /\ poll[l].pc = "scan"
  /\ poll' = [poll EXCEPT ![l] =
               IF poll[l].idx > Take(poll_limit)
                 THEN PollIdle("sleep")
               ELSE IF \/ Signatures[poll[l].idx] \in DOMAIN processed_signatures
                       \/ Signatures[poll[l].idx] \in processing_signatures
                 THEN [@ EXCEPT !.idx = @ + 1]
               ELSE [@ EXCEPT !.pc = "mark"]]
  /\ last' = [op |-> "poll"]
  /\ UNCHANGED <<held, tx, calls, now, rpc_client, store_all, sweep_vars, is_indexing,
                 processed_signatures, processing_signatures, metrics, instant,
                 starter, starts, cache_cleanup_tasks, faults>>

\* the signature is marked as in flight, under the write lock of the set
PollMark(l) ==
  /\ poll[l].pc = "mark"
  /\ processing_signatures' =
       processing_signatures \cup {Signatures[poll[l].idx]}
  /\ poll' = [poll EXCEPT ![l].pc = "attempt"]
  /\ last' = [op |-> "poll"]
  /\ UNCHANGED <<held, tx, calls, now, rpc_client, store_all, sweep_vars, is_indexing,
                 processed_signatures, metrics, instant, starter, starts,
                 cache_cleanup_tasks, faults>>

retry_delay_ms == 2000

\* a retry loop that goes on after every failure
should_retry_unbounded(status, attempt) == status # "Ok"

\* `for attempt in 0..max_retries` with `if attempt < max_retries - 1`: TRUE
\* when the failed attempt (numbered from 0) is followed by another one
should_retry(status, attempt) == status # "Ok" /\ attempt < MaxRetries - 1

\* the sleep before the next attempt: retry_delay_ms * (attempt as u64 + 1)
retry_delay(attempt) == retry_delay_ms * (attempt + 1)

\* the guards alive during the retry sleep: `let mut m = metrics.write()`
\* is declared in the block that sleeps
RetryGuards == {"metrics"}

\* one attempt of the retry loop, from the end of the sleep that follows a
\* failed attempt (its block ends, the guard is dropped) to the start of the
\* sleep that follows this one
PollAttempt(l) ==
  /\ poll[l].pc = "attempt"
  /\ LET sig == Signatures[poll[l].idx]
     IN \E i \in ProcessInputs(poll[l].attempt > 0) :
          LET out == Process(sig, i)
              retry == should_retry(out.status, poll[l].attempt)
          IN /\ InputsRead(out, i)
             /\ ProcessEffect(out, i, poll[l].attempt > 0)
             /\ poll' = [poll EXCEPT ![l] =
                           IF out.status = "Ok"
                             THEN [@ EXCEPT !.pc = "finish", !.success = TRUE]
                           ELSE IF retry
                             THEN [@ EXCEPT !.attempt = @ + 1]
                           ELSE [@ EXCEPT !.pc = "finish"]]
             /\ metrics' = IF retry
                             THEN [metrics EXCEPT !.total_retries = @ + 1]
                             ELSE metrics
             /\ held' = [held EXCEPT !.poll[l] =
                                  IF retry THEN RetryGuards ELSE {}]
             /\ last' = [op |-> "poll_attempt", sig |-> sig,
                         status |-> out.status,
                         delay |-> IF retry THEN retry_delay(poll[l].attempt)
                                   ELSE 0]
  /\ UNCHANGED <<tx, calls, now, rpc_client, sweep_vars, is_indexing, processed_signatures,
                 processing_signatures, instant, starter, starts,
                 cache_cleanup_tasks>>

\* a poll loop that records every treated signature in the cache
cache_after_finish_always(cache, signature, time, success) ==
  poll_insert_processed(cache, signature, time)

\* the cache after the retry loop: `if success { processed.insert(..) }`
cache_after_finish(cache, signature, time, success) ==
  IF success THEN poll_insert_processed(cache, signature, time) ELSE cache

\* after the retry loop: the signature leaves the in-flight set, and the
\* outcome goes to the cache and the metrics
PollFinish(l) ==
  /\ poll[l].pc = "finish"
  /\ LET sig == Signatures[poll[l].idx]
     IN /\ processing_signatures' = processing_signatures \ {sig}
        /\ processed_signatures' =
             cache_after_finish(processed_signatures, sig, instant + 1,
                                poll[l].success)
        /\ IF poll[l].success
             THEN /\ instant < MaxInstant
                  /\ instant' = instant + 1
                  /\ metrics' = [metrics EXCEPT !.total_processed = @ + 1]
             ELSE /\ metrics' = [metrics EXCEPT !.total_errors = @ + 1]
                  /\ UNCHANGED instant
        /\ poll' = [poll EXCEPT ![l] =
                      [PollIdle("scan") EXCEPT !.idx = poll[l].idx + 1]]
        /\ last' = [op |-> "poll_finish", sig |-> sig,
                    success |-> poll[l].success]
  /\ UNCHANGED <<held, tx, calls, now, rpc_client, store_all, sweep_vars, is_indexing, starter,
                 starts, cache_cleanup_tasks, faults>>

\* the sleep of polling_interval at the end of a round
PollSleep(l) ==
  /\ poll[l].pc = "sleep"
  /\ poll' = [poll EXCEPT ![l] = PollIdle("top")]
  /\ last' = [op |-> "poll"]
  /\ UNCHANGED <<held, tx, calls, now, rpc_client, store_all, sweep_vars, is_indexing,
                 processed_signatures, processing_signatures, metrics, instant,
                 starter, starts, cache_cleanup_tasks, faults>>

\* the hourly task of start_cleanup_task: entries older than the retention
\* time go (cutoff: the Instant that lies cache_retention_ms back)
CacheCleanup ==
  /\ cache_cleanup_tasks >= 1
  /\ \E cutoff \in 1..instant :
       /\ processed_signatures' =
            CacheKeep(processed_signatures,
                      {s \in DOMAIN processed_signatures :
                         processed_signatures[s] > cutoff})
       /\ last' = [op |-> "cache_cleanup"]
  /\ UNCHANGED <<held, tx, calls, now, rpc_client, store_all, sweep_vars, is_indexing,
                 processing_signatures, metrics, instant, starter, starts, poll,
                 cache_cleanup_tasks, faults>>

(***************************************************************************)
(* Concurrent calls of the store: save_nft and save_buyback_event hold no  *)
(* transaction and no lock, so the statements of two calls interleave.     *)
(* One action per statement; the database answers every statement.         *)
(***************************************************************************)
race_rest == <<now, rpc_client, sweep_vars, indexer_vars, tx>>

\* save_buyback_event up to the lookup: the stored row is returned, or the
\* call goes on to the INSERT
BuybackLookup(p) ==
  /\ calls[p].pc = "idle"
  /\ \E event \in BuybackCandidates :
       LET existing == RowsOfSig(buyback_events, event.transaction_signature)
       IN IF existing # {}
            THEN /\ UNCHANGED calls
                 /\ last' = [op |-> "call_save_buyback_event", who |-> p,
                             arg |-> event,
                             res |-> Success(CHOOSE r \in existing : TRUE)]
            ELSE /\ calls' = [calls EXCEPT ![p] =
                                [pc |-> "buyback_insert", arg |-> event]]
                 /\ last' = [op |-> "call", who |-> p]
  /\ UNCHANGED <<nfts, user_levels, buyback_events, next_uuid, race_rest>>

\* the INSERT INTO buyback_events of the call, and its return
BuybackInsert(p) ==
  /\ calls[p].pc = "buyback_insert"
  /\ next_uuid <= MaxUuid
  /\ LET out == save_buyback_event_unchecked(buyback_events, next_uuid, now,
                                             calls[p].arg, "ok")
     IN /\ buyback_events' = out.buyback_events
        /\ next_uuid' = out.next_uuid
        /\ last' = [op |-> "call_save_buyback_event", who |-> p,
                    arg |-> calls[p].arg, res |-> out.res]
  /\ calls' = [calls EXCEPT ![p] = CallIdle]
  /\ UNCHANGED <<nfts, user_levels, race_rest>>

\* save_nft up to the ownership check: the stored row is returned, the
\* candidate is rejected, or the call goes on to the INSERT
NftLookup(p) ==
  /\ calls[p].pc = "idle"
  /\ \E nft \in NftCandidates, rpc \in RpcInputs :
       LET existing == RowsOfMint(nfts, nft.mint)
           own == IF rpc_client THEN is_nft_owned_by_wallet(rpc)
                  ELSE "not_checked"
       IN IF existing # {}
            THEN /\ rpc = CHOOSE x \in RpcInputs : TRUE
                 /\ UNCHANGED calls
                 /\ last' = [op |-> "call_save_nft", who |-> p, arg |-> nft,
                             res |-> Success(CHOOSE r \in existing : TRUE)]
          ELSE IF ownership_rejects(own)
            THEN /\ UNCHANGED calls
                 /\ last' = [op |-> "call_save_nft", who |-> p, arg |-> nft,
                             res |-> Failure("Validation")]
          ELSE /\ calls' = [calls EXCEPT ![p] = [pc |-> "nft_insert", arg |-> nft]]
               /\ last' = [op |-> "call", who |-> p]
  /\ UNCHANGED <<nfts, user_levels, buyback_events, next_uuid, race_rest>>

\* the INSERT INTO nfts of the call: the error of the constraint is
\* returned, or the call goes on to recalculate_user_level
NftInsert(p) ==
  /\ calls[p].pc = "nft_insert"
  /\ next_uuid <= MaxUuid
  /\ LET nft == calls[p].arg
         row == [id |-> next_uuid, mint |-> nft.mint, minter |-> nft.minter,
                 transaction_signature |-> nft.transaction_signature,
                 updated_at |-> now]
         inserted == insert_nft(nfts, row)
     IN IF inserted.ok
          THEN /\ nfts' = inserted.table
               /\ next_uuid' = next_uuid + 1
               /\ calls' = [calls EXCEPT ![p] =
                              [pc |-> "nft_count", arg |-> nft, row |-> row]]
               /\ last' = [op |-> "call", who |-> p]
          ELSE /\ calls' = [calls EXCEPT ![p] = CallIdle]
               /\ last' = [op |-> "call_save_nft", who |-> p, arg |-> nft,
                           res |-> Failure("Database")]
               /\ UNCHANGED <<nfts, next_uuid>>
  /\ UNCHANGED <<user_levels, buyback_events, race_rest>>

\* recalculate_user_level: SELECT COUNT(*) FROM nfts WHERE minter = $1
NftCount(p) ==
  /\ calls[p].pc = "nft_count"
  /\ calls' = [calls EXCEPT ![p] =
                 [pc |-> "nft_level", arg |-> calls[p].arg, row |-> calls[p].row,
                  total_mints |->
                    Cardinality(RowsOfMinter(nfts, calls[p].arg.minter))]]
  /\ last' = [op |-> "call", who |-> p]
  /\ UNCHANGED <<nfts, user_levels, buyback_events, next_uuid, race_rest>>

\* recalculate_user_level: the DELETE or the upsert for the count read, and
\* the return of save_nft
NftLevel(p) ==
  /\ calls[p].pc = "nft_level"
  /\ user_levels' = write_user_level(user_levels, calls[p].arg.minter,
                                     calls[p].total_mints)
  /\ calls' = [calls EXCEPT ![p] = CallIdle]
  /\ last' = [op |-> "call_save_nft", who |-> p, arg |-> calls[p].arg,
              res |-> Success(calls[p].row)]
  /\ UNCHANGED <<nfts, buyback_events, next_uuid, race_rest>>

(***************************************************************************)
(* The event parser (services/event_parser.rs).  A log line is what the    *)
(* parser can tell of it: an invoke or a success line of the program, a    *)
(* "Program data: " line with its base64 text, or another log line with    *)
(* the fields the fallback parser reads.  Base64 text is a sequence of     *)
(* 6-bit digits, B64Pad standing for '=', and a payload is a sequence of   *)
(* bytes.                                                                  *)
(***************************************************************************)
MaxLogs == 4
\* a Pubkey is 32 bytes and an i64 is 8; both are scaled
KeyLen == 2
TsLen == 2

MINT_EVENT_DISCRIMINATOR == <<62, 73, 213, 84, 217, 70, 37, 55>>
BUYBACK_EVENT_DISCRIMINATOR == <<73, 203, 66, 140, 17, 155, 53, 84>>
DISCRIMINATOR_LEN == 8
\* borsh writes the length of a String as a u32
STRING_LEN_BYTES == 4
B64Pad == 64

RECURSIVE Pow256(_)
Pow256(w) == IF w = 0 THEN 1 ELSE 256 * Pow256(w - 1)

\* little-endian bytes of n in w bytes, two's complement
RECURSIVE to_le_bytes(_, _)
to_le_bytes(n, w) ==
  IF w = 0 THEN <<>>
  ELSE <<n % 256>> \o to_le_bytes(n \div 256, w - 1)

RECURSIVE UnsignedLe(_)
UnsignedLe(bytes) ==
  IF Len(bytes) = 0 THEN 0 ELSE bytes[1] + 256 * UnsignedLe(Tail(bytes))

from_le_bytes(bytes) ==
  LET u == UnsignedLe(bytes)
  IN IF 2 * u >= Pow256(Len(bytes)) THEN u - Pow256(Len(bytes)) ELSE u

\* base64::encode of the standard alphabet, with padding
RECURSIVE b64_encode(_)
b64_encode(bytes) ==
  IF Len(bytes) = 0 THEN <<>>
  ELSE IF Len(bytes) = 1
    THEN <<bytes[1] \div 4, (bytes[1] % 4) * 16, B64Pad, B64Pad>>
  ELSE IF Len(bytes) = 2
    THEN <<bytes[1] \div 4, (bytes[1] % 4) * 16 + bytes[2] \div 16,
           (bytes[2] % 16) * 4, B64Pad>>
  ELSE <<bytes[1] \div 4, (bytes[1] % 4) * 16 + bytes[2] \div 16,
         (bytes[2] % 16) * 4 + bytes[3] \div 64, bytes[3] % 64>>
       \o b64_encode(SubSeq(bytes, 4, Len(bytes)))

DecodeError == [ok |-> FALSE]

\* base64::decode: groups of four digits, padding only in the last group,
\* no bits set beyond the last whole byte
RECURSIVE b64_decode(_)
b64_decode(text) ==
  IF Len(text) = 0 THEN [ok |-> TRUE, bytes |-> <<>>]
  ELSE IF Len(text) < 4 \/ text[1] >= B64Pad \/ text[2] >= B64Pad
    THEN DecodeError
  ELSE IF text[3] = B64Pad
    THEN IF Len(text) = 4 /\ text[4] = B64Pad /\ text[2] % 16 = 0
           THEN [ok |-> TRUE, bytes |-> <<text[1] * 4 + text[2] \div 16>>]
           ELSE DecodeError
  ELSE IF text[3] > B64Pad THEN DecodeError
  ELSE IF text[4] = B64Pad
    THEN IF Len(text) = 4 /\ text[3] % 4 = 0
           THEN [ok |-> TRUE,
                 bytes |-> <<text[1] * 4 + text[2] \div 16,
                             (text[2] % 16) * 16 + text[3] \div 4>>]
           ELSE DecodeError
  ELSE IF text[4] > B64Pad THEN DecodeError
  ELSE LET rest == b64_decode(SubSeq(text, 5, Len(text)))
       IN IF rest.ok
            THEN [ok |-> TRUE,
                  bytes |-> <<text[1] * 4 + text[2] \div 16,
                              (text[2] % 16) * 16 + text[3] \div 4,
                              (text[3] % 4) * 64 + text[4]>> \o rest.bytes]
            ELSE DecodeError

\* Pubkey::to_string: the base58 text of the key's bytes
pubkey_to_string(key) == [base58 |-> key]

\* borsh of a String: its length as a u32, then its UTF-8 bytes
borsh_string(s) == to_le_bytes(Len(s), STRING_LEN_BYTES) \o s

\* borsh of a RawMintEvent, field after field
borsh_serialize(e) ==
  e.minter \o e.mint \o borsh_string(e.name) \o borsh_string(e.symbol)
    \o borsh_string(e.uri) \o to_le_bytes(e.timestamp, TsLen)

\* the reader under try_from_slice: n bytes from position pos
read_bytes(data, pos, n) ==
  IF pos + n - 1 <= Len(data)
    THEN [ok |-> TRUE, val |-> SubSeq(data, pos, pos + n - 1), pos |-> pos + n]
    ELSE DecodeError

\* a String: a length no payload of the model reaches has a non-zero high
\* byte; the text is ASCII, a byte from 128 on is not UTF-8 on its own
read_string(data, pos) ==
  LET len == read_bytes(data, pos, STRING_LEN_BYTES)
  IN IF ~len.ok \/ \E i \in 2..STRING_LEN_BYTES : len.val[i] # 0
       THEN DecodeError
       ELSE LET s == read_bytes(data, len.pos, len.val[1])
            IN IF s.ok /\ \A i \in DOMAIN s.val : s.val[i] < 128
                 THEN s ELSE DecodeError

\* RawMintEvent::try_from_slice: every field in order, no byte left over
try_from_slice(data) ==
  LET minter == read_bytes(data, 1, KeyLen)
      mint == IF minter.ok THEN read_bytes(data, minter.pos, KeyLen)
                           ELSE DecodeError
      name == IF mint.ok THEN read_string(data, mint.pos) ELSE DecodeError
      symbol == IF name.ok THEN read_string(data, name.pos) ELSE DecodeError
      uri == IF symbol.ok THEN read_string(data, symbol.pos) ELSE DecodeError
      timestamp == IF uri.ok THEN read_bytes(data, uri.pos, TsLen)
                             ELSE DecodeError
  IN IF timestamp.ok /\ timestamp.pos = Len(data) + 1
       THEN [ok |-> TRUE, minter |-> minter.val, mint |-> mint.val,
             name |-> name.val, symbol |-> symbol.val, uri |-> uri.val,
             timestamp |-> from_le_bytes(timestamp.val)]
       ELSE DecodeError

\* try_parse_mint_event_from_log of a "Program data: " line; the text of
\* such a line is ASCII, so the slice of its first 100 bytes is in bounds
try_parse_mint_event_from_log(log) ==
  IF log.kind # "data" THEN NoEvent
  ELSE LET data == b64_decode(log.text)
       IN IF ~data.ok THEN NoEvent
          ELSE IF Len(data.bytes) < DISCRIMINATOR_LEN THEN NoEvent
          ELSE IF SubSeq(data.bytes, 1, DISCRIMINATOR_LEN)
                    # MINT_EVENT_DISCRIMINATOR THEN NoEvent
          ELSE LET raw_event ==
                     try_from_slice(SubSeq(data.bytes, DISCRIMINATOR_LEN + 1,
                                           Len(data.bytes)))
               IN IF ~raw_event.ok THEN NoEvent
                  ELSE [minter |-> pubkey_to_string(raw_event.minter),
                        mint |-> pubkey_to_string(raw_event.mint),
                        name |-> raw_event.name,
                        symbol |-> raw_event.symbol,
                        uri |-> raw_event.uri,
                        timestamp |-> raw_event.timestamp]

\* is_our_program after the two marker tests of a line
is_our_program_after(log, is_our_program) ==
  LET invoked == IF log.kind = "invoke" THEN TRUE ELSE is_our_program
  IN IF log.kind = "success" THEN FALSE ELSE invoked

\* a variant of the scan that goes on to the later lines first
RECURSIVE scan_mint_logs_last(_, _, _)
scan_mint_logs_last(log_messages, i, is_our_program) ==
  IF i > Len(log_messages) THEN NoEvent
  ELSE LET flag == is_our_program_after(log_messages[i], is_our_program)
           later == scan_mint_logs_last(log_messages, i + 1, flag)
       IN IF later # NoEvent THEN later
          ELSE IF log_messages[i].kind = "data" /\ flag
            THEN try_parse_mint_event_from_log(log_messages[i])
            ELSE NoEvent

\* the loop of parse_mint_event from line i on
RECURSIVE scan_mint_logs(_, _, _)
scan_mint_logs(log_messages, i, is_our_program) ==
  IF i > Len(log_messages) THEN NoEvent
  ELSE LET flag == is_our_program_after(log_messages[i], is_our_program)
           event == IF log_messages[i].kind = "data" /\ flag
                      THEN try_parse_mint_event_from_log(log_messages[i])
                      ELSE NoEvent
       IN IF event # NoEvent THEN event
          ELSE scan_mint_logs(log_messages, i + 1, flag)

None == [some |-> FALSE]
Some(v) == [some |-> TRUE, val |-> v]

\* the fields the fallback parser has after its loop over the lines
RECURSIVE fallback_fields(_, _, _)
fallback_fields(log_messages, i, f) ==
  IF i > Len(log_messages) THEN f
  ELSE LET log == log_messages[i]
           found == f.found_mint_instruction
                      \/ (log.kind = "log" /\ log.mint_instruction)
           read(field) == IF found /\ log.kind = "log" /\ log[field].some
                            THEN log[field] ELSE f[field]
       IN fallback_fields(log_messages, i + 1,
                          [found_mint_instruction |-> found,
                           name |-> read("name"), symbol |-> read("symbol"),
                           uri |-> read("uri")])

parse_mint_event_fallback(log_messages, transaction, time) ==
  LET f == fallback_fields(log_messages, 1,
                           [found_mint_instruction |-> FALSE, name |-> None,
                            symbol |-> None, uri |-> None])
  IN IF f.found_mint_instruction /\ f.name.some /\ f.symbol.some
       THEN IF Len(transaction.account_keys) < 2 THEN NoEvent
            ELSE [minter |-> transaction.account_keys[1],
                  mint |-> transaction.account_keys[2],
                  name |-> f.name.val, symbol |-> f.symbol.val,
                  uri |-> IF f.uri.some THEN f.uri.val ELSE <<>>,
                  timestamp |-> time]
       ELSE NoEvent

extract_log_messages(transaction) ==
  IF transaction.log_messages.some THEN transaction.log_messages.val ELSE <<>>

parse_mint_event(transaction, time) ==
  IF ~transaction.meta THEN NoEvent
  ELSE LET log_messages == extract_log_messages(transaction)
           event == scan_mint_logs(log_messages, 1, FALSE)
       IN IF event # NoEvent THEN event
          ELSE parse_mint_event_fallback(log_messages, transaction, time)

\* ---- parse_buyback_event ----
\* borsh of a RawBuybackEvent: u64, u64, i64, in the scaled width
borsh_serialize_buyback(e) ==
  to_le_bytes(e.amount_sol, TsLen) \o to_le_bytes(e.token_amount, TsLen)
    \o to_le_bytes(e.timestamp, TsLen)

\* RawBuybackEvent::try_from_slice
try_from_slice_buyback(data) ==
  LET amount_sol == read_bytes(data, 1, TsLen)
      token_amount == IF amount_sol.ok THEN read_bytes(data, amount_sol.pos, TsLen)
                                       ELSE DecodeError
      timestamp == IF token_amount.ok
                     THEN read_bytes(data, token_amount.pos, TsLen)
                     ELSE DecodeError
  IN IF timestamp.ok /\ timestamp.pos = Len(data) + 1
       THEN [ok |-> TRUE, amount_sol |-> UnsignedLe(amount_sol.val),
             token_amount |-> UnsignedLe(token_amount.val),
             timestamp |-> from_le_bytes(timestamp.val)]
       ELSE DecodeError

\* `x as i64` of an unsigned x of the same width
as_signed(x) == IF 2 * x >= Pow256(TsLen) THEN x - Pow256(TsLen) ELSE x

try_parse_buyback_event_from_log(log) ==
  IF log.kind # "data" THEN NoEvent
  ELSE LET data == b64_decode(log.text)
       IN IF ~data.ok THEN NoEvent
          ELSE IF Len(data.bytes) < DISCRIMINATOR_LEN THEN NoEvent
          ELSE IF SubSeq(data.bytes, 1, DISCRIMINATOR_LEN)
                    # BUYBACK_EVENT_DISCRIMINATOR THEN NoEvent
          ELSE LET raw_event ==
                     try_from_slice_buyback(
                       SubSeq(data.bytes, DISCRIMINATOR_LEN + 1, Len(data.bytes)))
               IN IF ~raw_event.ok THEN NoEvent
                  ELSE [amount_sol |-> as_signed(raw_event.amount_sol),
                        token_amount |-> as_signed(raw_event.token_amount),
                        timestamp |-> raw_event.timestamp]

\* the loop of parse_buyback_event from line i on
RECURSIVE scan_buyback_logs(_, _, _)
scan_buyback_logs(log_messages, i, is_our_program) ==
  IF i > Len(log_messages) THEN NoEvent
  ELSE LET flag == is_our_program_after(log_messages[i], is_our_program)
           event == IF log_messages[i].kind = "data" /\ flag
                      THEN try_parse_buyback_event_from_log(log_messages[i])
                      ELSE NoEvent
       IN IF event # NoEvent THEN event
          ELSE scan_buyback_logs(log_messages, i + 1, flag)

\* The text of a program's own log line, as the pieces the fallback parser
\* looks for: each piece has its length in bytes and the length of its
\* lower-case form.  I_dot is U+0130, two bytes, whose lower-case form takes
\* three.
Piece(s, bytes, lower) == [s |-> s, bytes |-> bytes, lower |-> lower]
Pieces ==
  { Piece("swap", 4, 4), Piece("amount: ", 8, 8), Piece("tokens: ", 8, 8),
    Piece("5", 1, 1), Piece("I_dot", 2, 3) }
MaxText == 4
Panic == [panic |-> TRUE]

RECURSIVE BytesOf(_, _)
BytesOf(text, field) ==
  IF Len(text) = 0 THEN 0 ELSE text[1][field] + BytesOf(Tail(text), field)
\* the byte offsets of text that lie between two characters: the ends of
\* the pieces, and every byte inside a piece of ASCII text (the pieces whose
\* lower-case form keeps their length)
CharBoundaries(text) ==
  {BytesOf(SubSeq(text, 1, i), "bytes") : i \in 0..Len(text)}
    \cup UNION {{BytesOf(SubSeq(text, 1, i - 1), "bytes") + k :
                   k \in 1..(text[i].bytes - 1)} :
                 i \in {j \in DOMAIN text : text[j].lower = text[j].bytes}}
\* &text[offset..] as far as the digits at its head go: the pieces from the
\* offset on; an offset inside a piece of ASCII text leaves a head that is
\* no digit
SliceFrom(text, offset) ==
  LET at == {i \in 0..Len(text) : BytesOf(SubSeq(text, 1, i), "bytes") = offset}
  IN IF at = {} THEN <<>>
     ELSE SubSeq(text, (CHOOSE i \in at : TRUE) + 1, Len(text))
\* remaining[..end].parse::<i64>() of the leading digits
RECURSIVE LeadingDigits(_, _)
LeadingDigits(text, acc) ==
  IF Len(text) = 0 \/ text[1].s # "5" THEN acc
  ELSE LeadingDigits(Tail(text), Append(acc, 5))
RECURSIVE Decimal(_)
Decimal(digits) ==
  IF Len(digits) = 0 THEN 0
  ELSE 10 * Decimal(SubSeq(digits, 1, Len(digits) - 1)) + digits[Len(digits)]

\* the loop of extract_lamports_from_log and of extract_tokens_from_log
\* over their patterns: the pattern is found in log.to_lowercase(), the
\* offset is used in log
RECURSIVE extract_amount_from_log(_, _, _)
extract_amount_from_log(log, patterns, k) ==
  IF k > Len(patterns) THEN None
  ELSE LET found == {i \in DOMAIN log : log[i].s = patterns[k]}
       IN IF found = {} THEN extract_amount_from_log(log, patterns, k + 1)
          ELSE LET i == CHOOSE x \in found : \A y \in found : x <= y
                   start == BytesOf(SubSeq(log, 1, i - 1), "lower")
                   value_start == start + log[i].bytes
               IN IF value_start \notin CharBoundaries(log) THEN Panic
                  ELSE LET digits == LeadingDigits(SliceFrom(log, value_start), <<>>)
                       IN IF Len(digits) = 0
                            THEN extract_amount_from_log(log, patterns, k + 1)
                            ELSE Some(Decimal(digits))
extract_lamports_from_log(log) ==
  extract_amount_from_log(log, <<"lamports: ", "amount: ", "sol: ">>, 1)
extract_tokens_from_log(log) ==
  extract_amount_from_log(log, <<"tokens: ", "tokenamount: ", "token_amount: ">>, 1)

\* the loop of parse_buyback_event_fallback: f holds sol_amount, token_amount
RECURSIVE buyback_fallback_fields(_, _, _)
buyback_fallback_fields(log_messages, i, f) ==
  IF i > Len(log_messages) THEN f
  ELSE LET log == log_messages[i]
           marked == log.kind = "text"
                       /\ \E j \in DOMAIN log.text :
                            log.text[j].s \in {"buyback", "Buyback", "swap"}
           sol == IF marked THEN extract_lamports_from_log(log.text) ELSE None
           tokens == IF marked /\ sol # Panic
                       THEN extract_tokens_from_log(log.text) ELSE None
       IN IF sol = Panic \/ tokens = Panic THEN Panic
          ELSE buyback_fallback_fields(log_messages, i + 1,
                 [sol_amount |-> IF sol.some THEN sol ELSE f.sol_amount,
                  token_amount |-> IF tokens.some THEN tokens ELSE f.token_amount])

parse_buyback_event_fallback(log_messages, time) ==
  LET f == buyback_fallback_fields(log_messages, 1,
                                   [sol_amount |-> None, token_amount |-> None])
  IN IF f = Panic THEN Panic
     ELSE IF f.sol_amount.some /\ f.token_amount.some
       THEN [amount_sol |-> f.sol_amount.val,
             token_amount |-> f.token_amount.val, timestamp |-> time]
       ELSE NoEvent

parse_buyback_event(transaction, time) ==
  IF ~transaction.meta THEN NoEvent
  ELSE LET log_messages == extract_log_messages(transaction)
           event == scan_buyback_logs(log_messages, 1, FALSE)
       IN IF event # NoEvent THEN event
          ELSE parse_buyback_event_fallback(log_messages, time)

ABuyback == [amount_sol |-> 5, token_amount |-> 7, timestamp |-> 1]

\* the events the program emits, and the lines of a transaction's log
Key(b) == [i \in 1..KeyLen |-> b]
RawMintEvents ==
  { [minter |-> Key(7), mint |-> Key(200), name |-> <<97>>, symbol |-> <<98>>,
     uri |-> <<>>, timestamp |-> 1],
    [minter |-> Key(200), mint |-> Key(7), name |-> <<>>, symbol |-> <<98, 99>>,
     uri |-> <<117>>, timestamp |-> -2] }
DataLine(text) == [kind |-> "data", text |-> text]
EncodedLine(e) ==
  DataLine(b64_encode(MINT_EVENT_DISCRIMINATOR \o borsh_serialize(e)))
AnEvent == CHOOSE e \in RawMintEvents : e.timestamp = 1
\* the payload of e with the first byte of its tag changed
WrongTagLine(e) ==
  DataLine(b64_encode(<<63>> \o Tail(MINT_EVENT_DISCRIMINATOR)
                        \o borsh_serialize(e)))
\* the payload of a buyback event
BuybackLine ==
  DataLine(b64_encode(BUYBACK_EVENT_DISCRIMINATOR
                        \o borsh_serialize_buyback(ABuyback)))
\* a line with the marker of the mint instruction, a line with fields
MarkerLine ==
  [kind |-> "log", mint_instruction |-> TRUE, name |-> None, symbol |-> None,
   uri |-> None]
FieldsLine ==
  [kind |-> "log", mint_instruction |-> FALSE, name |-> Some(<<97>>),
   symbol |-> Some(<<98>>), uri |-> None]
LogLines ==
  { [kind |-> "invoke"], [kind |-> "success"] }
    \cup { EncodedLine(e) : e \in RawMintEvents }
    \cup { BuybackLine,
           DataLine(b64_encode(MINT_EVENT_DISCRIMINATOR
                                 \o Tail(borsh_serialize(AnEvent)))),
           WrongTagLine(AnEvent),
           DataLine(Tail(EncodedLine(AnEvent).text)) }
    \cup { MarkerLine, FieldsLine }
\* the invoke and the success line of a program the target program calls
\* (the token program, the metadata program, the swap program)
OtherInvoke == [kind |-> "other_invoke"]
OtherSuccess == [kind |-> "other_success"]
\* the lines of a log with cross-program invocations
CpiLines ==
  { [kind |-> "invoke"], [kind |-> "success"], OtherInvoke, OtherSuccess,
    EncodedLine(AnEvent), BuybackLine }
\* the buyback events the program can emit: each amount is a u64 (scaled to
\* TsLen bytes), taken at the ends and at the middle of its range
Amounts ==
  {0, ABuyback.amount_sol, Pow256(TsLen) \div 2 - 1, Pow256(TsLen) \div 2,
   Pow256(TsLen) - 1}
RawBuybackEvents ==
  [amount_sol : Amounts, token_amount : Amounts, timestamp : {ABuyback.timestamp}]
BuybackLineOf(e) ==
  DataLine(b64_encode(BUYBACK_EVENT_DISCRIMINATOR \o borsh_serialize_buyback(e)))
\* the log of an execute_buyback instruction that emits e
BuybackLog(e) == <<[kind |-> "invoke"], BuybackLineOf(e), [kind |-> "success"]>>
RECURSIVE SeqsUpTo(_, _)
SeqsUpTo(S, n) ==
  IF n = 0 THEN {<<>>}
  ELSE LET shorter == SeqsUpTo(S, n - 1)
       IN shorter \cup {Append(s, x) : s \in shorter, x \in S}
NoTransaction == [meta |-> FALSE]
AccountKeys == <<pubkey_to_string(Key(9)), pubkey_to_string(Key(10))>>
TextLine(text) == [kind |-> "text", text |-> text]
Transactions ==
  {NoTransaction}
    \cup {[meta |-> TRUE, log_messages |-> Some(<<TextLine(text)>>),
           account_keys |-> AccountKeys] :
            text \in SeqsUpTo(Pieces, MaxText) \ {<<>>}}
    \cup {[meta |-> TRUE, log_messages |-> None, account_keys |-> AccountKeys]}
    \cup {[meta |-> TRUE, log_messages |-> Some(l),
           account_keys |-> AccountKeys] : l \in SeqsUpTo(LogLines, MaxLogs)}
    \cup {[meta |-> TRUE, log_messages |-> Some(l),
           account_keys |-> AccountKeys] : l \in SeqsUpTo(CpiLines, MaxLogs)}
    \cup {[meta |-> TRUE, log_messages |-> Some(BuybackLog(e)),
           account_keys |-> AccountKeys] : e \in RawBuybackEvents}

\* EventParser::parse_mint_event on the transaction at hand
ParseMintEvent ==
  /\ last.op = "none"
  /\ last' = [op |-> "parse_mint_event", res |-> parse_mint_event(tx, now)]
  /\ UNCHANGED <<tx, calls, now, next_uuid, rpc_client, store_vars, sweep_vars,
                 indexer_vars>>

(***************************************************************************)
(* Init: the state after NftStorageService::new, with empty tables.        *)
(***************************************************************************)
InitStore ==
  /\ now = 0
  /\ next_uuid = 1
  /\ rpc_client \in BOOLEAN
  /\ nfts = {}
  /\ user_levels = [w \in Owners |-> NoLevel]
  /\ buyback_events = {}
  /\ cleanup_running = FALSE
  /\ sweep_pc = [p \in Sweepers |-> "idle"]
  /\ sweep_offset = [p \in Sweepers |-> 0]
  /\ sweep_threshold = [p \in Sweepers |-> 0]
  /\ sweep_checked = [p \in Sweepers |-> NoneChecked]
  /\ swept = {}
  /\ last = [op |-> "none"]
  /\ is_indexing = FALSE
  /\ processed_signatures = <<>>
  /\ processing_signatures = {}
  /\ metrics = [total_processed |-> 0, total_errors |-> 0, total_retries |-> 0]
  /\ instant = 0
  /\ starter = [pc |-> "idle", idx |-> 0]
  /\ starts = 0
  /\ poll = [l \in Loops |-> PollIdle("none")]
  /\ held = NoGuards
  /\ cache_cleanup_tasks = 0
  /\ faults = 0
  /\ calls = [p \in Callers |-> CallIdle]

Init == InitStore /\ tx = NoTransaction

\* the minted items, the owner levels and the sweep
Next ==
  \/ SaveNft
  \/ \E p \in Sweepers : CleanupStart(p)
  \/ \E p \in Sweepers : CleanupBatch(p)
  \/ Tick

Spec == Init /\ [][Next]_vars

\* the buyback event log
NextBuyback ==
  \/ SaveBuybackEvent
  \/ Tick

SpecBuyback == Init /\ [][NextBuyback]_vars

\* the coordinator over the store: the storage handle of the indexer is
\* built with the RPC client
InitIndexer == Init /\ rpc_client = TRUE

NextIndexer ==
  \/ StartIndexing
  \/ BackfillStep
  \/ StartPolling
  \/ StopIndexing
  \/ \E l \in Loops : PollTop(l)
  \/ \E l \in Loops : PollScan(l)
  \/ \E l \in Loops : PollMark(l)
  \/ \E l \in Loops : PollAttempt(l)
  \/ \E l \in Loops : PollFinish(l)
  \/ \E l \in Loops : PollSleep(l)
  \/ CacheCleanup

SpecIndexer == InitIndexer /\ [][NextIndexer]_vars

\* the runtime schedules every spawned task that is ready, and the task of
\* start_indexing goes on once it is started; the calls of start_indexing
\* and stop_indexing come from outside and carry no fairness
FairIndexer ==
  /\ WF_vars(BackfillStep)
  /\ WF_vars(StartPolling)
  /\ \A l \in Loops :
       /\ WF_vars(PollTop(l))
       /\ WF_vars(PollScan(l))
       /\ WF_vars(PollMark(l))
       /\ WF_vars(PollAttempt(l))
       /\ WF_vars(PollFinish(l))
       /\ WF_vars(PollSleep(l))
  /\ WF_vars(CacheCleanup)

SpecIndexerLive == SpecIndexer /\ FairIndexer

\* concurrent calls of save_buyback_event
NextBuybackRace ==
  \/ \E p \in Callers : BuybackLookup(p)
  \/ \E p \in Callers : BuybackInsert(p)
  \/ Tick

SpecBuybackRace == Init /\ [][NextBuybackRace]_vars

\* concurrent calls of save_nft
NextNftRace ==
  \/ \E p \in Callers : NftLookup(p)
  \/ \E p \in Callers : NftInsert(p)
  \/ \E p \in Callers : NftCount(p)
  \/ \E p \in Callers : NftLevel(p)
  \/ Tick

SpecNftRace == Init /\ [][NextNftRace]_vars

\* a save_nft call of the ingestion, statement by statement, next to the
\* sweep of the cleanup task
\* the task that ingests: the signatures of a tick are processed in turn
Ingestion == CHOOSE p \in Callers : TRUE

NextSaveSweep ==
  \/ NftLookup(Ingestion)
  \/ NftInsert(Ingestion)
  \/ NftCount(Ingestion)
  \/ NftLevel(Ingestion)
  \/ \E p \in Sweepers : CleanupStart(p)
  \/ \E p \in Sweepers : CleanupBatch(p)
  \/ Tick

SpecSaveSweep == Init /\ [][NextSaveSweep]_vars

\* the event parser on one transaction
\* transactions that carry events, as the parser hands them on: the two of
\* the ledger, and one whose mint event names the mint of another with a
\* different minter
EventTransactions ==
  { [signature |-> "S1", mint_event |-> MintEventOf("S1"),
     buyback_event |-> BuybackEventOf("S1")],
    [signature |-> "S2", mint_event |-> MintEventOf("S2"),
     buyback_event |-> BuybackEventOf("S2")],
    [signature |-> "S4", mint_event |-> [minter |-> "W2", mint |-> "M1"],
     buyback_event |-> NoEvent] }

\* SolanaIndexerService::process_transaction on one of them
ProcessTransaction ==
  \E x \in EventTransactions, rpc \in RpcInputs, sdb \in SaveDb, bdb \in BuybackDb :
    LET out == process_transaction(nfts, user_levels, buyback_events, next_uuid,
                                   now, rpc_client, x.signature, x.mint_event,
                                   x.buyback_event, rpc, sdb, bdb)
    IN /\ out.next_uuid <= MaxUuid + 1
       /\ out.read.sdb = sdb
       /\ out.read.bdb = bdb
       /\ ~out.read.rpc => rpc = CHOOSE r \in RpcInputs : TRUE
       /\ nfts' = out.nfts
       /\ user_levels' = out.user_levels
       /\ buyback_events' = out.buyback_events
       /\ next_uuid' = out.next_uuid
       /\ last' = [op |-> "process_transaction", sig |-> x.signature,
                   status |-> out.status]
       /\ UNCHANGED <<tx, calls, now, rpc_client, sweep_vars, indexer_vars>>

\* transactions processed one after the other
NextOrder == ProcessTransaction \/ Tick
SpecOrder == Init /\ [][NextOrder]_vars

\* EventParser::parse_buyback_event on the transaction at hand
ParseBuybackEvent ==
  /\ last.op = "none"
  /\ last' = [op |-> "parse_buyback_event", res |-> parse_buyback_event(tx, now)]
  /\ UNCHANGED <<tx, calls, now, next_uuid, rpc_client, store_vars, sweep_vars,
                 indexer_vars>>

InitDecoder == InitStore /\ rpc_client = TRUE /\ tx \in Transactions
NextDecoder == ParseMintEvent \/ ParseBuybackEvent
SpecDecoder == InitDecoder /\ [][NextDecoder]_vars


(***************************************************************************)
(* Properties of the Record Store.                                         *)
(***************************************************************************)
\* the step is a call of operation op (every action records itself in last)
IsCall(op) == last'.op = op

\* the user_levels row that the current rows of t prescribe for wallet w
LevelAgrees(t, levels, w) ==
  LET n == Cardinality(RowsOfMinter(t, w))
  IN IF n = 0 THEN levels[w] = NoLevel
     ELSE /\ levels[w] # NoLevel
          /\ levels[w].total_mints = n
          /\ levels[w].experience = n
          /\ levels[w].level = 1

\* C1: a save_nft call made while the table holds a row for the candidate's
\* mint address, whatever the candidate's other fields, leaves the nfts table
\* (hence every field of the row) and the user_levels table as they are, the
\* table holds exactly one row for the mint, and the call returns that row
\* (unless it cannot reach the database at all, when it returns the error).
C1_SaveNftIdempotent ==
  [][(IsCall("save_nft") /\ RowsOfMint(nfts, last'.arg.mint) # {}) =>
       /\ nfts' = nfts
       /\ user_levels' = user_levels
       /\ Cardinality(RowsOfMint(nfts', last'.arg.mint)) = 1
       /\ last'.db \in {"ok", "down"}
       /\ last'.db = "ok" =>
            \E r \in RowsOfMint(nfts, last'.arg.mint) : last'.res = Success(r)
       /\ last'.db = "down" => last'.res = Failure("Database")]_vars

\* a save_nft for a stored mint, with another minter and another signature
\* than the stored row's, has returned the stored row
C1_Witness ==
  /\ last.op = "save_nft"
  /\ last.res.status = "Ok"
  /\ last.res.row \in nfts
  /\ last.res.row.mint = last.arg.mint
  /\ last.res.row.minter # last.arg.minter
  /\ last.res.row.transaction_signature # last.arg.transaction_signature

\* C2: after a save_buyback_event call the table holds at most one row for
\* the call's transaction signature, exactly one when the call succeeded; a
\* call made while a row for the signature is stored leaves the table as it
\* is and returns that row.
C2_SaveBuybackIdempotent ==
  [][IsCall("save_buyback_event") =>
       LET sig == last'.arg.transaction_signature
       IN /\ Cardinality(RowsOfSig(buyback_events', sig)) <= 1
          /\ last'.res.status = "Ok" =>
               Cardinality(RowsOfSig(buyback_events', sig)) = 1
          /\ RowsOfSig(buyback_events, sig) # {} =>
               /\ buyback_events' = buyback_events
               /\ last'.db \in {"ok", "down"}
               /\ last'.db = "ok" =>
                    \E r \in RowsOfSig(buyback_events, sig) :
                       last'.res = Success(r)]_vars

\* a repeated save_buyback_event, with another amount than the stored row's,
\* has returned the stored row
C2_Witness ==
  /\ last.op = "save_buyback_event"
  /\ last.res.status = "Ok"
  /\ last.res.row \in buyback_events
  /\ last.res.row.amount_sol # last.arg.amount_sol
  /\ Cardinality(RowsOfSig(buyback_events, last.arg.transaction_signature)) = 1

\* C3: whenever no store operation is in the middle of an insert or of a
\* deletion step (every state of this model: save_nft and a batch of the
\* sweep are single steps), each owner has a user_levels row if and only if
\* the owner has at least one nfts row; also when the recomputation of the
\* level met a storage error.
C3_LevelRowIffOwnsItem ==
  \A w \in Owners : (user_levels[w] # NoLevel) <=> (RowsOfMinter(nfts, w) # {})

\* C4: a save_nft for a mint not yet stored whose ownership check could not
\* be completed because the RPC call failed, and that met no database
\* failure, has inserted the row and recomputed the owner's level.
C4_RpcFailureProceeds ==
  (last.op = "save_nft" /\ last.rpc = "rpc_error" /\ last.db = "ok") =>
     /\ last.res.status = "Ok"
     /\ last.res.row \in nfts
     /\ LevelAgrees(nfts, user_levels, last.arg.minter)

\* C5: a save_nft whose ownership check answers that the claimed owner does
\* not hold the item returns a validation error and leaves the nfts table and
\* the user_levels table as they were.
C5_NotOwnedIsRejected ==
  [][(IsCall("save_nft") /\ last'.own = "Ok(false)") =>
       /\ last'.res = Failure("Validation")
       /\ nfts' = nfts
       /\ user_levels' = user_levels]_vars

\* the RPC answered a zero balance and the call returned the validation error
C5_Witness ==
  /\ last.op = "save_nft"
  /\ last.rpc = "zero"
  /\ last.own = "Ok(false)"
  /\ last.res.status = "Validation"
  /\ RowsOfMint(nfts, last.arg.mint) = {}

\* C6: in a batch of the sweep whose statements meet no storage error, every
\* selected row whose ownership check returned false is deleted, and the
\* user_levels row of its owner then agrees with the owner's remaining rows:
\* recomputed from their count, or absent when none is left.
C6_SweepRemovesNotOwned ==
  [][IsCall("cleanup_batch") =>
       \A r \in last'.not_owned :
          /\ r \in nfts
          /\ r \notin nfts'
          /\ r.minter \notin last'.failed =>
               LevelAgrees(nfts', user_levels', r.minter)]_vars

\* a batch has deleted a row of an owner who keeps another row, and the
\* owner's level row counts one item
C6_Witness ==
  /\ last.op = "cleanup_batch"
  /\ last.failed = {}
  /\ \E r \in last.not_owned :
        /\ r \notin nfts
        /\ RowsOfMinter(nfts, r.minter) # {}
        /\ user_levels[r.minter] # NoLevel
        /\ user_levels[r.minter].total_mints = 1

\* a batch has deleted the only row of an owner, whose level row is gone
C6_WitnessRemoved ==
  /\ last.op = "cleanup_batch"
  /\ \E r \in last.not_owned :
        /\ r \notin nfts
        /\ RowsOfMinter(nfts, r.minter) = {}
        /\ user_levels[r.minter] = NoLevel

\* C7: at most one caller is inside the sweep at any time; a
\* cleanup_burned_nfts call made while another caller is inside the sweep
\* returns at once, leaves the tables, the flag and every sweep's position as
\* they are, so nothing is left behind that would run the skipped call later.
C7_AtMostOneSweep ==
  [][/\ Cardinality({p \in Sweepers : sweep_pc'[p] = "loop"}) <= 1
     /\ \A p \in Sweepers :
          (/\ last'.op \in {"cleanup_skipped", "cleanup_started", "cleanup_failed"}
           /\ last'.who = p
           /\ sweep_pc[p] = "idle"
           /\ \E q \in Sweepers \ {p} : sweep_pc[q] = "loop")
          => /\ last'.op = "cleanup_skipped"
             /\ UNCHANGED <<tx, calls, now, next_uuid, rpc_client, store_vars, sweep_vars,
                            indexer_vars>>]_vars

\* a call was skipped while the other caller is inside the sweep
C7_Witness ==
  /\ last.op = "cleanup_skipped"
  /\ sweep_pc[last.who] = "idle"
  /\ \E q \in Sweepers \ {last.who} : sweep_pc[q] = "loop"
  /\ cleanup_running



(***************************************************************************)
(* The processed-signature cache of the coordinator.                       *)
(***************************************************************************)
CacheSize(cache) == Cardinality(DOMAIN cache)

\* the step inserts last'.sig into the cache: a successful poll tick, or the
\* backfill on a signature the store already has
IsCacheInsertion ==
  \/ IsCall("poll_finish") /\ last'.success
  \/ IsCall("backfill_step") /\ last'.outcome = "recorded"

\* C8: in every reachable state of the coordinator the processed-signature
\* cache holds at most the configured maximum number of entries, whichever
\* path inserted them.
C8_CacheWithinMaximum == CacheSize(processed_signatures) <= MaxCacheSize

\* C9: when an insertion into the processed-signature cache makes its size
\* exceed the maximum, the cache is cut back to floor(3/4 of the maximum)
\* entries, every entry kept has a processing time not earlier than that of
\* every entry evicted, and the entry just inserted is kept.
C9_InsertionCutsBack ==
  [][ LET c == CacheInsert(processed_signatures, last'.sig, instant')
          kept == DOMAIN processed_signatures'
      IN (IsCacheInsertion /\ CacheSize(c) > MaxCacheSize)
           => /\ CacheSize(processed_signatures') = (MaxCacheSize * 3) \div 4
              /\ kept \subseteq DOMAIN c
              /\ \A k \in kept : processed_signatures'[k] = c[k]
              /\ \A k \in kept, e \in DOMAIN c \ kept : c[e] <= c[k]
              /\ last'.sig \in kept ]_vars

\* C10: every signature whose processing succeeds, in the startup backfill
\* or in a poll tick, is in the processed-signature cache once its
\* processing has completed.
C10_CommittedIsCached ==
  LET committed == \/ last.op = "backfill_step" /\ last.outcome = "processed_ok"
                   \/ last.op = "poll_finish" /\ last.success
  IN committed => last.sig \in DOMAIN processed_signatures

(***************************************************************************)
(* The retry loop of a poll tick.                                          *)
(***************************************************************************)
\* the poll loop that makes the step
Acting(l) == poll'[l] # poll[l]

\* C11: in a poll tick, when processing a signature fails with a store
\* validation error, no further attempt is made for that signature in that
\* tick: the failure is terminal after the first attempt and the retry
\* counter is not incremented for it.
C11_ValidationIsTerminal ==
  [][(IsCall("poll_attempt") /\ last'.status = "Validation") =>
       /\ metrics'.total_retries = metrics.total_retries
       /\ \A l \in Loops : Acting(l) => poll'[l].pc = "finish"]_vars

C14_BackfillGoesOn ==
  [][IsCall("backfill_step") =>
       /\ starter'.pc = "backfill"
       /\ starter'.idx = starter.idx + 1]_vars

\* C15: during the startup backfill, a signature that is in the local cache,
\* or for which the Record Store holds an nfts or buyback_events row, is
\* neither fetched nor processed (the tables stay as they are); a signature
\* that is in neither is processed, when the check of the store gives its
\* answer; only the backfill_limit newest signatures are considered.
C15_BackfillSkipsRecorded ==
  [][IsCall("backfill_step") =>
       LET sig == last'.sig
           cached == sig \in DOMAIN processed_signatures
           stored == is_transaction_processed(nfts, buyback_events, sig)
       IN /\ starter.idx <= backfill_limit
          /\ sig = Signatures[starter.idx]
          /\ cached => last'.outcome = "cached"
          /\ (~cached /\ stored) => last'.outcome \in {"recorded", "aborted"}
          /\ (cached \/ stored) => UNCHANGED store_all
          /\ (~cached /\ ~stored) =>
               last'.outcome \in {"processed_ok", "processed_err", "aborted"}
          /\ last'.outcome = "aborted" => UNCHANGED store_all
          /\ last'.outcome = "processed_ok" =>
               /\ MintEventOf(sig) # NoEvent =>
                    RowsOfMint(nfts', MintEventOf(sig).mint) # {}
               /\ BuybackEventOf(sig) # NoEvent =>
                    RowsOfSig(buyback_events', sig) # {}]_vars

\* the backfill of a restart has skipped a signature whose rows are stored
\* and that was not in the cache
C15_Witness ==
  /\ last.op = "backfill_step"
  /\ last.outcome = "recorded"
  /\ is_transaction_processed(nfts, buyback_events, last.sig)
  /\ starts = 2

\* a backfill has ended at its window, the older signature of the list was
\* not considered and has no row
C15_WitnessWindow ==
  /\ starter.pc = "backfill"
  /\ starter.idx = backfill_limit + 1
  /\ backfill_limit < Len(Signatures)
  /\ last.op = "backfill_step"
  /\ last.outcome = "processed_ok"
  /\ \A k \in (backfill_limit + 1)..Len(Signatures) :
        ~is_transaction_processed(nfts, buyback_events, Signatures[k])

\* C16: every signature whose processing ends in failure, in the startup
\* backfill or in a poll tick, is counted in the error counter of the
\* metrics, exactly once per failed processing.
C16_FailureIsCounted ==
  [][(\/ IsCall("backfill_step") /\ last'.outcome = "processed_err"
      \/ IsCall("poll_finish") /\ ~last'.success)
       => metrics'.total_errors = metrics.total_errors + 1]_vars

(***************************************************************************)
(* Concurrent calls of the store.                                          *)
(***************************************************************************)
\* C17: when two calls of save_buyback_event for the same transaction
\* signature race (both pass the lookup before either inserts), the table
\* ends with one row for that signature: in every reachable state there is
\* at most one buyback_events row per transaction signature.
C17_OneBuybackRowPerSignature ==
  \A r1, r2 \in buyback_events :
     r1.transaction_signature = r2.transaction_signature => r1 = r2

\* C18: when two calls of save_nft race for one new mint address, the table
\* holds at most one row per mint, no step changes or removes a stored row,
\* the call that loses at the INSERT returns the error and writes nothing,
\* and once the calls have returned with that mint's row as the only one
\* every owner's level row counts the owner's rows.
C18_OneRowPerMintInRace ==
  [][/\ \A r1, r2 \in nfts' : r1.mint = r2.mint => r1 = r2
     /\ nfts \subseteq nfts'
     /\ (IsCall("call_save_nft") /\ last'.res.status = "Database") =>
          /\ RowsOfMint(nfts, last'.arg.mint) # {}
          /\ calls'[last'.who] = CallIdle
          /\ UNCHANGED <<nfts, user_levels>>
     /\ ((\A p \in Callers : calls'[p] = CallIdle) /\ Cardinality(nfts') = 1)
          => \A w \in Owners : LevelAgrees(nfts', user_levels', w)]_vars

\* both calls have returned: the one that lost at the INSERT with the
\* error, the winner's row is the only row and its owner's level counts 1
C18_Witness ==
  /\ last.op = "call_save_nft"
  /\ last.res.status = "Database"
  /\ \A p \in Callers : calls[p] = CallIdle
  /\ Cardinality(nfts) = 1
  /\ \E r \in nfts : /\ r.mint = last.arg.mint
                     /\ user_levels[r.minter] # NoLevel
                     /\ user_levels[r.minter].total_mints = 1

(***************************************************************************)
(* The owner levels over a run of store operations made one after another. *)
(***************************************************************************)
\* the step met a storage error in a recomputation of a level
RecalcFailed ==
  \/ IsCall("save_nft") /\ last'.db = "recalc_fails"
  \/ IsCall("cleanup_batch") /\ last'.failed # {}

\* C19: with the operations run one after another from the empty store,
\* after each completed step whose statements meet no storage error the
\* count stored in every owner's level row equals the owner's current number
\* of nfts rows, with level 1, and an owner without rows has no level row
\* (an inserted mint adds one to its owner's count, a row the sweep deletes
\* takes one off).
C19_LevelCountsItems ==
  [][(~RecalcFailed /\ \A w \in Owners : LevelAgrees(nfts, user_levels, w))
       => /\ \A w \in Owners : LevelAgrees(nfts', user_levels', w)
          /\ (IsCall("save_nft") /\ nfts' # nfts) =>
               /\ user_levels'[last'.arg.minter].total_mints =
                    Cardinality(RowsOfMinter(nfts, last'.arg.minter)) + 1
               /\ user_levels'[last'.arg.minter].level = 1
          /\ IsCall("cleanup_batch") =>
               \A r \in last'.not_owned :
                  /\ r \notin nfts'
                  /\ RowsOfMinter(nfts', r.minter) # {} =>
                       user_levels'[r.minter].total_mints =
                         Cardinality(RowsOfMinter(nfts', r.minter))]_vars

\* the scenario has run: M1 and M2 were minted by W1 (count 1, then 2), the
\* sweep has found M1 not held and deleted it, W1's level row counts 1 after
\* its third recomputation
C19_Witness ==
  /\ last.op = "cleanup_batch"
  /\ \E r \in last.not_owned : r.mint = "M1" /\ r.minter = "W1"
  /\ {r.mint : r \in nfts} = {"M2"}
  /\ \A r \in nfts : r.minter = "W1"
  /\ user_levels["W1"].total_mints = 1
  /\ user_levels["W1"].level = 1
  /\ user_levels["W1"].version = 3
\* C20: when a line of a transaction's log lies after an invoke line of the
\* program with no success line of the program in between, and carries the
\* base64 text of the mint tag followed by the borsh bytes of an event, then
\* parse_mint_event returns that event field for field; of several such lines
\* it returns the event of the first.
InRange(log_messages, i) ==
  \E j \in 1..(i - 1) :
     /\ log_messages[j].kind = "invoke"
     /\ \A k \in (j + 1)..(i - 1) : log_messages[k].kind # "success"
GoodLines(log_messages) ==
  {i \in DOMAIN log_messages :
     /\ InRange(log_messages, i)
     /\ \E e \in RawMintEvents : log_messages[i] = EncodedLine(e)}
Emitted(e) ==
  [minter |-> pubkey_to_string(e.minter), mint |-> pubkey_to_string(e.mint),
   name |-> e.name, symbol |-> e.symbol, uri |-> e.uri,
   timestamp |-> e.timestamp]
C20_FirstEncodedEventIsReturned ==
  (last.op = "parse_mint_event" /\ tx.meta /\ tx.log_messages.some) =>
    LET log_messages == tx.log_messages.val
        good == GoodLines(log_messages)
    IN good # {} =>
         LET first == CHOOSE i \in good : \A j \in good : i <= j
         IN \E e \in RawMintEvents :
              /\ log_messages[first] = EncodedLine(e)
              /\ last.res = Emitted(e)

\* two different events were encoded within the range, after a data line
\* that does not decode, and the parser has answered
C20_Witness ==
  /\ last.op = "parse_mint_event"
  /\ tx.meta /\ tx.log_messages.some
  /\ Cardinality({tx.log_messages.val[i] :
                    i \in GoodLines(tx.log_messages.val)}) = 2
  /\ \E i \in DOMAIN tx.log_messages.val :
       /\ tx.log_messages.val[i].kind = "data"
       /\ InRange(tx.log_messages.val, i)
       /\ i \notin GoodLines(tx.log_messages.val)
       /\ \A j \in GoodLines(tx.log_messages.val) : i < j
  /\ last.res # NoEvent

\* C21: when the only payload of a log within the program's range is a well
\* formed mint payload whose tag is changed, parse_mint_event returns no
\* event, whatever else the log holds.
HasWrongTagOnly(log_messages) ==
  /\ GoodLines(log_messages) = {}
  /\ \E i \in DOMAIN log_messages :
       /\ InRange(log_messages, i)
       /\ log_messages[i] = WrongTagLine(AnEvent)
C21_WrongTagGivesNothing ==
  (last.op = "parse_mint_event" /\ tx.meta /\ tx.log_messages.some
     /\ HasWrongTagOnly(tx.log_messages.val))
    => last.res = NoEvent

\* C22: when a log has no payload line, and has a line with the mint marker
\* and a line with name and symbol fields, in whichever order, then
\* parse_mint_event returns an event with that name and that symbol.
HasMarkerAndFields(log_messages) ==
  /\ \A i \in DOMAIN log_messages : log_messages[i].kind # "data"
  /\ \E i \in DOMAIN log_messages : log_messages[i] = MarkerLine
  /\ \E i \in DOMAIN log_messages : log_messages[i] = FieldsLine
C22_FallbackInAnyOrder ==
  (last.op = "parse_mint_event" /\ tx.meta /\ tx.log_messages.some
     /\ HasMarkerAndFields(tx.log_messages.val))
    => /\ last.res # NoEvent
       /\ last.res.name = FieldsLine.name.val
       /\ last.res.symbol = FieldsLine.symbol.val

\* C23: on every log, parse_mint_event and parse_buyback_event return an
\* event or nothing; neither of them panics.
C23_ParsersNeverPanic ==
  last.op \in {"parse_mint_event", "parse_buyback_event"} => last.res # Panic

\* C24: from every state of the tables, processing two different transactions
\* that carry events gives the same rows of the three tables in either order,
\* ids and timestamps aside, and processing a transaction a second time
\* changes no row.
Here ==
  [nfts |-> nfts, user_levels |-> user_levels,
   buyback_events |-> buyback_events, next_uuid |-> next_uuid]
\* the tables after process_transaction of x has run to its end on s
Then(s, x) ==
  LET out == process_transaction(s.nfts, s.user_levels, s.buyback_events,
                                 s.next_uuid, now, rpc_client, x.signature,
                                 x.mint_event, x.buyback_event,
                                 "held", "ok", "ok")
  IN [nfts |-> out.nfts, user_levels |-> out.user_levels,
      buyback_events |-> out.buyback_events, next_uuid |-> out.next_uuid]
Content(s) ==
  [nfts |-> {[mint |-> r.mint, minter |-> r.minter,
              transaction_signature |-> r.transaction_signature] : r \in s.nfts},
   user_levels |-> s.user_levels,
   buyback_events |-> {[transaction_signature |-> r.transaction_signature,
                        amount_sol |-> r.amount_sol] : r \in s.buyback_events}]
C24_OrderIsImmaterial ==
  \A x, y \in EventTransactions :
     /\ x # y => Content(Then(Then(Here, x), y)) = Content(Then(Then(Here, y), x))
     /\ Content(Then(Then(Here, x), x)) = Content(Then(Here, x))

PassEnds(p) ==
  /\ sweep_pc[p] = "loop"
  /\ sweep_pc'[p] = "idle"
  /\ last'.op \in {"cleanup_done", "cleanup_batch"}
  /\ last'.who = p
C26_EveryStaleRowIsChecked ==
  [][\A p \in Sweepers :
       PassEnds(p) =>
         LET checked == IF last'.op = "cleanup_batch"
                          THEN Checked(sweep_checked[p], last'.rows)
                          ELSE sweep_checked[p]
         IN /\ \A r \in nfts' :
                 r.updated_at < sweep_threshold[p] => r.id \in checked.ids
            /\ checked.total_checked = Cardinality(checked.ids)]_vars

\* C27: whenever a call of cleanup_burned_nfts that went past the flag check
\* returns, after its last batch or with a storage error, the flag
\* cleanup_running is FALSE.
C27_FlagClearedOnReturn ==
  [][\A p \in Sweepers :
       (PassEnds(p) \/ (last'.op = "cleanup_failed" /\ last'.who = p))
         => ~cleanup_running']_vars

\* C28: a batch of the sweep deletes a row only when an RPC client is
\* configured and the balance query of the row was answered; a row whose
\* query failed is kept.
C28_DeletesOnlyOnZeroBalance ==
  [][IsCall("cleanup_batch") =>
       \A r \in nfts \ nfts' : rpc_client /\ r \notin last'.rpc_failed]_vars

\* the signatures a poll loop holds between its marking and its release
\* (the retry loop of fetch_and_process_transaction)
InFlight(l) ==
  IF poll[l].pc \in {"attempt", "finish"}
    THEN {Signatures[poll[l].idx]}
    ELSE {}

\* C29: no signature is treated by two ingestion activities at once: two
\* poll loops never hold the same signature between marking and release,
\* and the backfill never processes a signature that a poll loop holds.
C29_OneActivityPerSignature ==
  [][/\ \A l1, l2 \in Loops :
          l1 # l2 => InFlight(l1)' \cap InFlight(l2)' = {}
     /\ (IsCall("backfill_step")
          /\ last'.outcome \in {"processed_ok", "processed_err"})
         => \A l \in Loops : last'.sig \notin InFlight(l)]_vars

\* the poll loops that were spawned and have not left their `loop`
Running ==
  {l \in Loops : poll[l].pc \notin {"none", "stopped"}}

\* C30: whatever the calls of start_indexing and stop_indexing, at most one
\* poll loop runs in the process.
C30_AtMostOnePollLoop ==
  Cardinality(Running) <= 1

(***************************************************************************)
(* Lock guards of the indexer.                                             *)
(***************************************************************************)
\* the guards the task of start_indexing holds while the step makes its RPC
\* and database calls: those it had before the step and still has after it,
\* and for the first step the guard main took before the call
StarterGuardsAtCall ==
  IF IsCall("start_indexing") THEN held'.starter ELSE held.starter

\* the guards a poll loop holds while PollAttempt makes its calls: the
\* guards of the retry sleep are dropped when the sleep's block ends
PollGuardsAtCall(l) == held.poll[l] \ RetryGuards

\* C31: while the coordinator makes an RPC call or a database call, in the
\* backfill and in a poll tick, it holds no lock guard: neither those of
\* the cache, the in-flight set, the metrics and the running flag, nor that
\* of the lock around the indexer service.
C31_NoGuardAcrossCalls ==
  [][/\ (IsCall("start_indexing") \/ IsCall("backfill_step"))
          => StarterGuardsAtCall = {}
     /\ \A l \in Loops :
          (IsCall("poll_attempt") /\ Acting(l)) => PollGuardsAtCall(l) = {}]_vars

\* the locks get_status reads, one after the other
StatusLocks ==
  {"is_indexing", "processed_signatures", "processing_signatures", "metrics"}

\* the poll loop is in one of its sleeps: the retry delay after a failed
\* attempt, the rate-limit delay after a signature, the poll interval
Waiting(l) ==
  \/ poll[l].pc = "attempt" /\ poll[l].attempt > 0
  \/ poll[l].pc = "scan" /\ poll[l].idx > 1
  \/ poll[l].pc = "sleep"

\* C40: a poll loop that waits out a retry delay, the rate-limit delay or
\* the poll interval holds none of the locks that get_status reads.
C40_NoStatusLockWhileWaiting ==
  \A l \in Loops : Waiting(l) => held.poll[l] \cap StatusLocks = {}

(***************************************************************************)
(* The ingestion and the sweep on one owner.                               *)
(***************************************************************************)
\* no save_nft call and no sweep is under way
Quiet ==
  /\ \A p \in Callers : calls[p].pc = "idle"
  /\ \A p \in Sweepers : sweep_pc[p] = "idle"

\* C32: when a save_nft call and a sweep have interleaved and the later of
\* the two finishes with its recalculation done, the user_levels row of the
\* owner counts the owner's rows of nfts, and is absent exactly when the
\* owner has none.
C32_LevelAgreesAfterInterleaving ==
  [][Quiet' =>
       /\ (IsCall("call_save_nft") /\ calls[Ingestion].pc = "nft_level")
            => LevelAgrees(nfts', user_levels', last'.arg.minter)
       /\ (IsCall("cleanup_batch") /\ last'.failed = {})
            => \A r \in nfts \ nfts' :
                 LevelAgrees(nfts', user_levels', r.minter)]_vars

(***************************************************************************)
(* The cache against the store.                                            *)
(***************************************************************************)
\* every event the parser finds in the transaction of sig has its row: the
\* mint event a row of nfts for its mint, the buyback event a row of
\* buyback_events for the signature
EventsStored(sig, t, b) ==
  /\ MintEventOf(sig) # NoEvent => RowsOfMint(t, MintEventOf(sig).mint) # {}
  /\ BuybackEventOf(sig) # NoEvent => RowsOfSig(b, sig) # {}

\* C33: a signature enters the processed-signature cache only when, at that
\* moment, every event of its transaction is in the store.
C33_CachedMeansStored ==
  [][\A sig \in DOMAIN processed_signatures' \ DOMAIN processed_signatures :
       EventsStored(sig, nfts', buyback_events')]_vars

(***************************************************************************)
(* The end of the background loops.                                        *)
(***************************************************************************)
\* stop_indexing has been called and no call of start_indexing can follow
StoppedForGood ==
  /\ ~is_indexing
  /\ starter.pc = "idle"
  /\ starts = MaxStarts

\* no poll loop and no hourly cache-cleanup loop is left
AllLoopsEnded ==
  /\ cache_cleanup_tasks = 0
  /\ \A l \in Loops : poll[l].pc \in {"none", "stopped"}

\* C34: once the indexer is stopped and not started again, every loop that
\* start_indexing spawned, the poll loop and the hourly cache cleanup,
\* eventually ends.
C34_LoopsEndAfterStop ==
  [](StoppedForGood => <>AllLoopsEnded)

(***************************************************************************)
(* The in-flight set against the cache.                                    *)
(***************************************************************************)
\* C35: after any step of a poll loop, no signature is both in the in-flight
\* set and in the cache; a signature whose processing has just finished is
\* out of the in-flight set; and the in-flight set is empty when the loop
\* goes to wait for its next tick.
C35_InFlightClearedBeforeOutcome ==
  [][\A l \in Loops :
       Acting(l) =>
         /\ processing_signatures' \cap DOMAIN processed_signatures' = {}
         /\ IsCall("poll_finish") => last'.sig \notin processing_signatures'
         /\ poll'[l].pc = "sleep" => processing_signatures' = {}]_vars

(***************************************************************************)
(* Transactions without a decodable event.                                 *)
(***************************************************************************)
\* the parser finds neither event in the transaction of sig
NoEvents(sig) == MintEventOf(sig) = NoEvent /\ BuybackEventOf(sig) = NoEvent

\* the answers of the RPC and the database next to a transaction that was
\* fetched
FetchedInputs == {i \in ProcessInputs(TRUE) : i.fetch = "ok"}

\* C36: where the backfill or a poll tick comes to a transaction without a
\* decodable event, the transaction, once fetched, is processed with Ok and
\* without a write to the store whatever the RPC and the database would
\* answer; in a poll tick the attempt is the last one for the
\* signature, no retry and no error is counted, and the signature is put
\* into the cache.
C36_NoEventIsProcessed ==
  [][/\ (/\ IsCall("poll_attempt") \/ IsCall("backfill_step")
         /\ NoEvents(last'.sig)) =>
            \A i \in FetchedInputs :
              LET out == Process(last'.sig, i)
              IN /\ out.status = "Ok"
                 /\ <<out.nfts, out.user_levels, out.buyback_events,
                      out.next_uuid>> = store_all
     /\ \A l \in Loops :
          /\ (/\ IsCall("poll_attempt")
               /\ Acting(l)
               /\ NoEvents(last'.sig)
               /\ last'.status = "Ok") =>
                 /\ store_all' = store_all
                 /\ poll'[l].pc = "finish"
                 /\ poll'[l].success
                 /\ metrics' = metrics
          /\ (/\ IsCall("poll_finish")
               /\ Acting(l)
               /\ NoEvents(last'.sig)
               /\ poll[l].success) =>
                 /\ last'.sig \in DOMAIN processed_signatures'
                 /\ metrics'.total_errors = metrics.total_errors
                 /\ metrics'.total_retries = metrics.total_retries]_vars

\* a poll loop has recorded a transaction without events as processed
C36_Witness ==
  /\ last.op = "poll_finish"
  /\ NoEvents(last.sig)
  /\ last.success
  /\ last.sig \in DOMAIN processed_signatures
  /\ metrics.total_errors = 0

(***************************************************************************)
(* The program that wrote a line of the log.  The runtime writes an invoke *)
(* line when a program is entered, at the top level or from another        *)
(* program, and a success line when it returns, so the writer of a line is *)
(* the program that was entered last and has not returned.                 *)
(***************************************************************************)
\* the programs entered and not yet left after the first i lines, the
\* innermost last; ok is FALSE when a success line matches no invoke
RECURSIVE InvokeStack(_, _)
InvokeStack(log_messages, i) ==
  IF i = 0 THEN [ok |-> TRUE, stack |-> <<>>]
  ELSE LET s == InvokeStack(log_messages, i - 1)
           kind == log_messages[i].kind
           n == Len(s.stack)
           Push(program) == [ok |-> TRUE, stack |-> Append(s.stack, program)]
           Pop(program) ==
             IF n > 0 /\ s.stack[n] = program
               THEN [ok |-> TRUE, stack |-> SubSeq(s.stack, 1, n - 1)]
               ELSE [ok |-> FALSE, stack |-> <<>>]
       IN IF ~s.ok THEN s
          ELSE IF kind = "invoke" THEN Push("ours")
          ELSE IF kind = "other_invoke" THEN Push("other")
          ELSE IF kind = "success" THEN Pop("ours")
          ELSE IF kind = "other_success" THEN Pop("other")
          ELSE s

WellFormed(log_messages) == InvokeStack(log_messages, Len(log_messages)).ok

\* the data lines the target program wrote itself
OwnData(log_messages) ==
  {i \in DOMAIN log_messages :
     /\ log_messages[i].kind = "data"
     /\ LET s == InvokeStack(log_messages, i - 1).stack
        IN s # <<>> /\ s[Len(s)] = "ours"}

\* C37: on a log whose invoke and success lines match, the tag path returns
\* an event only when a data line written by the target program itself,
\* between its invoke line and its success line, decodes to one: a payload
\* of a line written before, after, or by another program is not returned.
C37_TagPathStaysInOwnRange ==
  (/\ last.op \in {"parse_mint_event", "parse_buyback_event"}
   /\ tx.meta
   /\ tx.log_messages.some
   /\ WellFormed(tx.log_messages.val)) =>
    LET log_messages == tx.log_messages.val
        own == OwnData(log_messages)
    IN /\ (/\ last.op = "parse_mint_event"
            /\ \A i \in own :
                 try_parse_mint_event_from_log(log_messages[i]) = NoEvent)
            => scan_mint_logs(log_messages, 1, FALSE) = NoEvent
       /\ (/\ last.op = "parse_buyback_event"
            /\ \A i \in own :
                 try_parse_buyback_event_from_log(log_messages[i]) = NoEvent)
            => scan_buyback_logs(log_messages, 1, FALSE) = NoEvent

(***************************************************************************)
(* Rows the sweep has removed.                                             *)
(***************************************************************************)
\* the answers of the balance query for a wallet that does not hold the
\* token: a zero balance, or a failure (the token account is closed)
NotHeld == {"zero", "rpc_error"}

\* C38: a save_nft call for a mint that a sweep deleted and that is not in
\* the table, made while the minter still does not hold the token, inserts
\* no row and changes no level.
C38_SweptRowIsNotRecreated ==
  [][(/\ IsCall("save_nft")
      /\ MintOf(last'.arg) \in swept
      /\ RowsOfMint(nfts, last'.arg.mint) = {}
      /\ last'.rpc \in NotHeld)
       => /\ nfts' = nfts
          /\ user_levels' = user_levels
          /\ last'.res.status # "Ok"]_vars

\* the mint transaction of a swept row was ingested again and rejected
C38_Witness ==
  /\ last.op = "save_nft"
  /\ MintOf(last.arg) \in swept
  /\ last.rpc \in NotHeld
  /\ last.res.status = "Validation"
  /\ RowsOfMint(nfts, last.arg.mint) = {}

(***************************************************************************)
(* The amounts of a buyback event.                                         *)
(***************************************************************************)
\* C39: the event decoded from the payload of a buyback event carries the
\* two amounts that were encoded, over the whole unsigned range, and no
\* negative amount.
C39_BuybackAmountsSurvive ==
  (last.op = "parse_buyback_event" /\ tx.meta /\ tx.log_messages.some) =>
    \A e \in RawBuybackEvents :
      tx.log_messages.val = BuybackLog(e) =>
        /\ last.res # NoEvent
        /\ last.res.amount_sol = e.amount_sol
        /\ last.res.token_amount = e.token_amount
        /\ last.res.amount_sol >= 0
        /\ last.res.token_amount >= 0

====
